---- MODULE Spec2Model ----
(***************************************************************************)
(* Agent Colosseum: the match orchestrator (backend/match.py), the three   *)
(* game engines it dispatches to, and the match registry with its          *)
(* WebSocket handler (backend/main.py).                                    *)
(***************************************************************************)
EXTENDS Integers, Sequences, FiniteSets, TLC

\* ------------------------------------------------------------------------
\* Program constants
\* ------------------------------------------------------------------------
MAX_MATCHES == 100
TOTAL_ITEMS == 8
STARTING_CREDITS == 1000

\* ------------------------------------------------------------------------
\* Bounds of the model
\* ------------------------------------------------------------------------
\* REST create-match requests explored by Spec (the registry never fills)
MaxCreates == 1
\* create-match requests beyond MAX_MATCHES explored by RegSpec
ExtraCreates == 2
\* largest total_rounds a start_match message carries in Spec
MaxRounds == 2
\* total_rounds of the matches EngineSpec drives
EngineRounds == 2

Sides == {"red", "blue"}
Other(side) == IF side = "red" THEN "blue" ELSE "red"
None == "None"

Min(a, b) == IF a <= b THEN a ELSE b
Max(a, b) == IF a >= b THEN a ELSE b
\* Python int(): truncation toward zero of n / d
Trunc(n, d) == IF n >= 0 THEN n \div d ELSE -((-n) \div d)

\* ------------------------------------------------------------------------
\* Resource Wars (game_engine.py)
\* ------------------------------------------------------------------------
Resources == <<"A", "B", "C">>
ResourceSet == {"A", "B", "C"}

GameState(total_rounds) ==
    [gt |-> "resource_wars",
     resources |-> [r \in ResourceSet |-> 100],
     scores |-> [s \in Sides |-> 0],
     round_number |-> 1,
     total_rounds |-> total_rounds,
     economy_bonus |-> [s \in Sides |-> 0]]

Move(type, target, amount) == [type |-> type, target |-> target, amount |-> amount]

default_move == Move("defensive_spread", "A", 60)

\* economy bonus after the retreat pass of resolve_round
retreat_bonus(move, bonus) ==
    IF move.type = "retreat" THEN bonus + Trunc(move.amount, 10) ELSE bonus

\* power one move commits to resource r, given the mover's economy boost
apply_move(move, boost, r) ==
    CASE move.type = "aggressive_bid" ->
             IF move.target = r THEN move.amount + boost ELSE 0
      [] move.type = "defensive_spread" -> (move.amount + boost) \div 3
      [] move.type = "bluff" ->
             IF move.target = r THEN (move.amount \div 4) + boost ELSE 0
      [] move.type = "counter" ->
             IF move.target = r THEN Trunc(3 * (move.amount + boost), 2) ELSE 0
      [] OTHER -> 0

capture_amount_full(pool, diff) == Min(pool, Max(5, diff))

capture_amount_uncapped(pool, diff) == Max(5, diff \div 2)

\* units captured from a pool holding `pool` when the winner leads by diff
capture_amount(pool, diff) == Min(pool, Max(5, diff \div 2))

resolve_round(red_move, blue_move, gs) ==
    LET eb == [s \in Sides |->
                 retreat_bonus(IF s = "red" THEN red_move ELSE blue_move,
                               gs.economy_bonus[s])]
        rp == [r \in ResourceSet |-> apply_move(red_move, eb["red"], r)]
        bp == [r \in ResourceSet |-> apply_move(blue_move, eb["blue"], r)]
        red_cap == [r \in ResourceSet |->
                      IF rp[r] > bp[r]
                      THEN capture_amount(gs.resources[r], rp[r] - bp[r]) ELSE 0]
        blue_cap == [r \in ResourceSet |->
                      IF bp[r] > rp[r]
                      THEN capture_amount(gs.resources[r], bp[r] - rp[r]) ELSE 0]
        red_delta == red_cap["A"] + red_cap["B"] + red_cap["C"]
        blue_delta == blue_cap["A"] + blue_cap["B"] + blue_cap["C"]
        contested == {r \in ResourceSet : ~(rp[r] = 0 /\ bp[r] = 0)}
    IN  [state |-> [gs EXCEPT
                      !.economy_bonus = eb,
                      !.resources = [r \in ResourceSet |->
                                       gs.resources[r] - red_cap[r] - blue_cap[r]],
                      !.scores = [s \in Sides |->
                                    gs.scores[s]
                                    + (IF s = "red" THEN red_delta ELSE blue_delta)]],
         resolution |->
             [round_winner |-> IF red_delta > blue_delta THEN "red"
                               ELSE IF blue_delta > red_delta THEN "blue"
                               ELSE None,
              resource_changes |->
                  [r \in contested |-> [red |-> red_cap[r], blue |-> blue_cap[r]]]]]

is_game_over(gs) ==
    \/ gs.round_number > gs.total_rounds
    \/ \A r \in ResourceSet : gs.resources[r] <= 0

get_winner(gs) ==
    IF gs.scores["red"] > gs.scores["blue"] THEN "red"
    ELSE IF gs.scores["blue"] > gs.scores["red"] THEN "blue"
    ELSE "draw"

\* Optional values: <<>> is Python's None, <<v>> a present value v
Nothing == <<>>
Some(v) == <<v>>
IsNone(o) == o = <<>>
Val(o) == o[1]

\* ------------------------------------------------------------------------
\* Negotiation (negotiation_engine.py): red sells, blue buys
\* ------------------------------------------------------------------------
NegotiationMove(type, price) == [type |-> type, price |-> price]

NegotiationState(total_rounds, red_walkaway, blue_walkaway) ==
    [gt |-> "negotiation",
     round_number |-> 1,
     total_rounds |-> total_rounds,
     red_walkaway |-> red_walkaway,
     blue_walkaway |-> blue_walkaway,
     current_offer |-> Nothing,
     offer_by |-> None,
     deal_price |-> Nothing,
     deal_round |-> Nothing,
     scores |-> [s \in Sides |-> 0],
     bluffs_used |-> [s \in Sides |-> 0]]

negotiation_default_move_ask == NegotiationMove("propose", 70)

negotiation_default_move == NegotiationMove("propose", 50)

IsOffer_propose(move) == move.type = "propose"

IsOffer(move) == move.type \in {"propose", "counter_offer"}

negotiation_deal_ceil(red_move, blue_move, gs) ==
    IF red_move.type = "bluff_walkaway" /\ blue_move.type = "bluff_walkaway"
    THEN Nothing
    ELSE IF (red_move.type = "accept" \/ blue_move.type = "accept")
            /\ ~IsNone(gs.current_offer)
    THEN gs.current_offer
    ELSE IF IsOffer(red_move) /\ blue_move.type = "accept"
    THEN Some(red_move.price)
    ELSE IF IsOffer(blue_move) /\ red_move.type = "accept"
    THEN Some(blue_move.price)
    ELSE IF IsOffer(red_move) /\ IsOffer(blue_move)
            /\ red_move.price <= blue_move.price
    THEN Some((red_move.price + blue_move.price + 1) \div 2)
    ELSE Nothing

\* the deal price of a round, or Nothing when the round strikes no deal
negotiation_deal(red_move, blue_move, gs) ==
    IF red_move.type = "bluff_walkaway" /\ blue_move.type = "bluff_walkaway"
    THEN Nothing
    ELSE IF (red_move.type = "accept" \/ blue_move.type = "accept")
            /\ ~IsNone(gs.current_offer)
    THEN gs.current_offer
    ELSE IF IsOffer(red_move) /\ blue_move.type = "accept"
    THEN Some(red_move.price)
    ELSE IF IsOffer(blue_move) /\ red_move.type = "accept"
    THEN Some(blue_move.price)
    ELSE IF IsOffer(red_move) /\ IsOffer(blue_move)
            /\ red_move.price <= blue_move.price
    THEN Some((red_move.price + blue_move.price) \div 2)
    ELSE Nothing

negotiation_resolve_round(red_move, blue_move, gs) ==
    LET bluffs == [s \in Sides |->
                     gs.bluffs_used[s]
                     + (IF (IF s = "red" THEN red_move ELSE blue_move).type
                           = "bluff_walkaway" THEN 1 ELSE 0)]
        both_bluff == red_move.type = "bluff_walkaway"
                      /\ blue_move.type = "bluff_walkaway"
        deal == negotiation_deal(red_move, blue_move, gs)
        red_gain == Max(0, Val(deal) - gs.red_walkaway)
        blue_gain == Max(0, gs.blue_walkaway - Val(deal))
        g1 == [gs EXCEPT !.bluffs_used = bluffs]
    IN  IF both_bluff
        THEN [state |-> g1,
              resolution |-> [round_winner |-> None, deal_struck |-> FALSE,
                              deal_price |-> Nothing]]
        ELSE IF ~IsNone(deal)
        THEN [state |-> [g1 EXCEPT
                           !.deal_price = deal,
                           !.deal_round = Some(gs.round_number),
                           !.scores = [red |-> gs.scores["red"] + red_gain,
                                       blue |-> gs.scores["blue"] + blue_gain]],
              resolution |-> [round_winner |-> IF red_gain > blue_gain THEN "red"
                                               ELSE IF blue_gain > red_gain THEN "blue"
                                               ELSE None,
                              deal_struck |-> TRUE,
                              deal_price |-> deal]]
        ELSE [state |-> IF IsOffer(red_move)
                        THEN [g1 EXCEPT !.current_offer = Some(red_move.price),
                                        !.offer_by = "red"]
                        ELSE IF IsOffer(blue_move)
                        THEN [g1 EXCEPT !.current_offer = Some(blue_move.price),
                                        !.offer_by = "blue"]
                        ELSE g1,
              resolution |-> [round_winner |-> None, deal_struck |-> FALSE,
                              deal_price |-> Nothing]]

negotiation_is_game_over_rounds(gs) == gs.round_number > gs.total_rounds

negotiation_is_game_over(gs) ==
    \/ ~IsNone(gs.deal_price)
    \/ gs.round_number > gs.total_rounds

negotiation_get_winner(gs) ==
    IF IsNone(gs.deal_price) THEN "draw"
    ELSE IF gs.scores["red"] > gs.scores["blue"] THEN "red"
    ELSE IF gs.scores["blue"] > gs.scores["red"] THEN "blue"
    ELSE "draw"

\* ------------------------------------------------------------------------
\* Auction (auction_engine.py)
\* ------------------------------------------------------------------------
AuctionMove(type, amount) == [type |-> type, amount |-> amount]

BaseValues == <<100, 80, 120, 90, 110, 70, 130, 95>>

\* the eight items; each side's private valuation is base + its offset
generate_items(red_off, blue_off) ==
    [i \in 1..TOTAL_ITEMS |->
        [name |-> i,
         base_value |-> BaseValues[i],
         red_valuation |-> BaseValues[i] + red_off,
         blue_valuation |-> BaseValues[i] + blue_off]]

AuctionState(total_rounds, red_off, blue_off) ==
    [gt |-> "auction",
     round_number |-> 1,
     total_rounds |-> total_rounds,
     credits |-> [s \in Sides |-> STARTING_CREDITS],
     items |-> generate_items(red_off, blue_off),
     won_items |-> [s \in Sides |-> <<>>],
     scores |-> [s \in Sides |-> 0],
     total_spent |-> [s \in Sides |-> 0],
     bluffs_used |-> [s \in Sides |-> 0]]

auction_default_move == AuctionMove("bid", 50)

current_item(gs) ==
    IF gs.round_number - 1 >= 0 /\ gs.round_number - 1 < Len(gs.items)
    THEN Some(gs.items[gs.round_number]) ELSE Nothing

effective_bid(move) == IF move.type = "pass" THEN 0 ELSE move.amount

actual_payment_uncapped(move, bid, credits) ==
    IF move.type = "bluff_bid" THEN move.amount \div 2 ELSE move.amount

actual_payment_full(move, bid, credits) == Min(bid, credits)

\* what the winner of an item is charged for a clamped bid
actual_payment(move, bid, credits) ==
    Min(IF move.type = "bluff_bid" THEN bid \div 2 ELSE bid, credits)

auction_winner_red(red_bid, blue_bid, coin) ==
    IF red_bid = 0 /\ blue_bid = 0 THEN None
    ELSE IF blue_bid > red_bid THEN "blue"
    ELSE "red"

auction_winner_coin(red_bid, blue_bid, coin) ==
    IF red_bid = 0 /\ blue_bid = 0 THEN None ELSE coin

\* the side that takes the item, None when it goes unsold; coin breaks ties
auction_winner(red_bid, blue_bid, coin) ==
    IF red_bid = 0 /\ blue_bid = 0 THEN None
    ELSE IF red_bid > blue_bid THEN "red"
    ELSE IF blue_bid > red_bid THEN "blue"
    ELSE coin

auction_resolve_round(red_move, blue_move, gs, coin) ==
    LET item == Val(current_item(gs))
        red_bid == Min(effective_bid(red_move), gs.credits["red"])
        blue_bid == Min(effective_bid(blue_move), gs.credits["blue"])
        bluffs == [s \in Sides |->
                     gs.bluffs_used[s]
                     + (IF (IF s = "red" THEN red_move ELSE blue_move).type
                           = "bluff_bid" THEN 1 ELSE 0)]
        winner == auction_winner(red_bid, blue_bid, coin)
        move == IF winner = "red" THEN red_move ELSE blue_move
        bid == IF winner = "red" THEN red_bid ELSE blue_bid
        paid == actual_payment(move, bid, gs.credits[winner])
        valuation == IF winner = "red" THEN item.red_valuation
                     ELSE item.blue_valuation
        g1 == [gs EXCEPT !.bluffs_used = bluffs]
    IN  IF IsNone(current_item(gs))
        THEN [state |-> gs,
              resolution |-> [round_winner |-> None, item_name |-> 0,
                              winning_bid |-> 0]]
        ELSE IF winner = None
        THEN [state |-> g1,
              resolution |-> [round_winner |-> None, item_name |-> item.name,
                              winning_bid |-> Max(red_bid, blue_bid)]]
        ELSE [state |-> [g1 EXCEPT
                           !.credits[winner] = @ - paid,
                           !.total_spent[winner] = @ + paid,
                           !.won_items[winner] =
                               Append(@, [name |-> item.name, bid |-> bid,
                                          paid |-> paid, valuation |-> valuation]),
                           !.scores[winner] = @ + (valuation - paid)],
              resolution |-> [round_winner |-> winner, item_name |-> item.name,
                              winning_bid |-> Max(red_bid, blue_bid)]]

auction_is_game_over(gs) ==
    \/ gs.round_number > gs.total_rounds
    \/ (gs.credits["red"] <= 0 /\ gs.credits["blue"] <= 0)

auction_get_winner(gs) ==
    IF gs.scores["red"] > gs.scores["blue"] THEN "red"
    ELSE IF gs.scores["blue"] > gs.scores["red"] THEN "blue"
    ELSE "draw"

\* ------------------------------------------------------------------------
\* GPU marketplace (gpu_auction_engine.py): the user bids, the neocloud sells
\* ------------------------------------------------------------------------
TOTAL_ROUNDS == 10
USER_STARTING_BUDGET == 10000

\* the catalogue; demand levels, which only weigh select_round_gpu's draw,
\* are not tracked
GPU_TYPES ==
    <<[name |-> "NVIDIA H100", compute_units |-> 100, base_price |-> 400],
      [name |-> "NVIDIA A100", compute_units |-> 80, base_price |-> 300],
      [name |-> "NVIDIA A10G", compute_units |-> 40, base_price |-> 150],
      [name |-> "NVIDIA RTX 4090", compute_units |-> 60, base_price |-> 200],
      [name |-> "NVIDIA L4", compute_units |-> 30, base_price |-> 100],
      [name |-> "AMD MI300X", compute_units |-> 90, base_price |-> 350]>>

GPUBidMove(type, amount, hours) ==
    [type |-> type, amount |-> amount, hours |-> hours]

\* price_adjustment is carried in hundredths: 30 stands for 0.30
NeocloudMove(type, price_adjustment) ==
    [type |-> type, price_adjustment |-> price_adjustment]

Abs(n) == IF n >= 0 THEN n ELSE -n

\* GPUAuctionState after __post_init__; surged is the set of catalogue
\* entries whose drawn demand of 0.9 priced them at int(base * 1.2).
\* current_gpu 0 stands for None; provider_revenue and provider_sold are the
\* totals of the first provider, the one resolve_gpu_round credits
GPUAuctionState(surged) ==
    [gt |-> "gpu_bidding",
     total_rounds |-> TOTAL_ROUNDS,
     current_round |-> 0,
     user_budget |-> USER_STARTING_BUDGET,
     user_compute_acquired |-> 0,
     neocloud_revenue |-> 0,
     neocloud_resources_sold |-> 0,
     scores |-> [s \in Sides |-> 0],
     current_price |-> [k \in 1..Len(GPU_TYPES) |->
                          IF k \in surged
                          THEN Trunc(GPU_TYPES[k].base_price * 120, 100)
                          ELSE GPU_TYPES[k].base_price],
     current_gpu |-> 0,
     provider_revenue |-> 0,
     provider_sold |-> 0]

\* select_round_gpu: entry k of the catalogue goes on the block
select_round_gpu(state, k) == [state EXCEPT !.current_gpu = k]

\* the price of a unit after the neocloud's move
neocloud_price(move, base_price, current_price) ==
    CASE move.type = "surge_pricing" ->
             Trunc(base_price * (100 + Abs(move.price_adjustment)), 100)
      [] move.type = "discount" ->
             Trunc(base_price * Max(50, 100 - Abs(move.price_adjustment)), 100)
      [] move.type = "set_price" ->
             Trunc(base_price * (100 + move.price_adjustment), 100)
      [] OTHER -> current_price

gpu_premium_price_flat(price) == price

\* what a surge bid pays: int(current_price * 1.3)
gpu_premium_price(price) == Trunc(price * 13, 10)

resolve_gpu_round(state, user_move, neocloud_move) ==
    LET gpu == GPU_TYPES[state.current_gpu]
        price == neocloud_price(neocloud_move, gpu.base_price,
                                state.current_price[state.current_gpu])
        premium_price == gpu_premium_price(price)
        transaction ==
            \/ user_move.type = "bid" /\ user_move.amount >= price
            \/ user_move.type = "surge_bid" /\ user_move.amount >= premium_price
        final_price == IF ~transaction THEN 0
                       ELSE IF user_move.type = "bid" THEN price
                       ELSE premium_price
        compute_gained == IF transaction
                          THEN gpu.compute_units * user_move.hours ELSE 0
        winner == IF ~transaction THEN "draw"
                  ELSE IF user_move.type = "surge_bid" THEN "neocloud"
                  ELSE IF 10 * final_price < 9 * gpu.base_price THEN "user"
                  ELSE IF 10 * final_price > 12 * gpu.base_price THEN "neocloud"
                  ELSE "draw"
        s1 == [state EXCEPT !.current_price[state.current_gpu] = price]
        s2 == IF transaction
              THEN [s1 EXCEPT
                      !.user_budget = @ - final_price,
                      !.user_compute_acquired = @ + compute_gained,
                      !.neocloud_revenue = @ + final_price,
                      !.neocloud_resources_sold = @ + 1,
                      !.scores = [red |-> state.user_compute_acquired
                                            + compute_gained,
                                  blue |-> (state.neocloud_revenue
                                            + final_price) \div 100],
                      !.provider_revenue = @ + final_price,
                      !.provider_sold = @ + 1]
              ELSE s1
    IN  [state |-> s2,
         resolution |-> [round_number |-> state.current_round,
                         transaction_occurred |-> transaction,
                         final_price |-> final_price,
                         compute_gained |-> compute_gained,
                         user_budget_after |-> s2.user_budget,
                         neocloud_revenue_after |-> s2.neocloud_revenue,
                         winner |-> winner]]

is_gpu_game_over(state) ==
    \/ state.current_round >= state.total_rounds
    \/ state.user_budget <= 0

\* ------------------------------------------------------------------------
\* Match (match.py): dispatch on config.game_type
\* ------------------------------------------------------------------------
Match_post_init_uncapped(gt, total_rounds, red_draw, blue_draw) ==
    IF gt = "negotiation"
    THEN NegotiationState(total_rounds, 20 + red_draw, 55 + blue_draw)
    ELSE IF gt = "auction"
    THEN AuctionState(total_rounds, red_draw - 30, blue_draw - 30)
    ELSE GameState(total_rounds)

\* Match.__post_init__: the initial game state for a game-type tag; walkaway
\* prices and valuation offsets are the random draws of the state constructors
Match_post_init(gt, total_rounds, red_draw, blue_draw) ==
    IF gt = "negotiation"
    THEN NegotiationState(total_rounds, 20 + red_draw, 55 + blue_draw)
    ELSE IF gt = "auction"
    THEN AuctionState(Min(total_rounds, TOTAL_ITEMS), red_draw - 30, blue_draw - 30)
    ELSE GameState(total_rounds)

Match_is_game_over(gt, gs) ==
    IF gt = "negotiation" THEN negotiation_is_game_over(gs)
    ELSE IF gt = "auction" THEN auction_is_game_over(gs)
    ELSE is_game_over(gs)

Match_get_winner(gt, gs) ==
    IF gt = "negotiation" THEN negotiation_get_winner(gs)
    ELSE IF gt = "auction" THEN auction_get_winner(gs)
    ELSE get_winner(gs)

Match_default_move_rw(gt) == default_move

Match_default_move(gt) ==
    IF gt = "negotiation" THEN negotiation_default_move
    ELSE IF gt = "auction" THEN auction_default_move
    ELSE default_move

Match_resolve_round(gt, red_move, blue_move, gs, coin) ==
    IF gt = "negotiation" THEN negotiation_resolve_round(red_move, blue_move, gs)
    ELSE IF gt = "auction" THEN auction_resolve_round(red_move, blue_move, gs, coin)
    ELSE resolve_round(red_move, blue_move, gs)

\* PredictionResult; status records how the decide operation ended
PredictionResult(status, predictions, chosen_move) ==
    [status |-> status, predictions |-> predictions, chosen_move |-> chosen_move]

Pending == PredictionResult("pending", <<>>, Nothing)

\* Match._get_prediction: the agent's result, or the fallback when it raises
get_prediction(gt, outcome) ==
    IF outcome.status = "raised"
    THEN PredictionResult("raised", <<>>, Some(Match_default_move(gt)))
    ELSE outcome

\* `result.chosen_move or self._default_move()`
chosen_or_default(gt, result) ==
    IF IsNone(result.chosen_move) THEN Match_default_move(gt)
    ELSE Val(result.chosen_move)

\* the key parameter _annotate_predictions puts after the move type
move_key(gt, move) ==
    IF gt = "negotiation" THEN move.price
    ELSE IF gt = "auction" THEN move.amount
    ELSE move.target

\* `actual.type.value in predicted_move`: substring test on the type names
type_in(actual_type, predicted_type) ==
    \/ actual_type = predicted_type
    \/ (actual_type = "bid" /\ predicted_type = "bluff_bid")

\* a guess names the opponent move it expects as "<type>_<key>"
Guess(type, key) == [type |-> type, key |-> key]

annotate_one(gt, guess, actual) ==
    LET was_correct == guess.type = actual.type
                       /\ guess.key = move_key(gt, actual)
    IN  [guess |-> guess,
         wasCorrect |-> was_correct,
         partialMatch |-> ~was_correct /\ type_in(actual.type, guess.type)]

annotate_predictions(gt, predictions, actual) ==
    [i \in 1..Len(predictions) |-> annotate_one(gt, predictions[i], actual)]

CountCorrect(annotated) ==
    Cardinality({i \in 1..Len(annotated) : annotated[i].wasCorrect})

\* ------------------------------------------------------------------------
\* State: the registry (main.py `_matches`), the REST id source, and one
\* WebSocket handler with its Match per connection
\* ------------------------------------------------------------------------
VARIABLES matches, nextId, run

vars == <<matches, nextId, run>>

Conns == {1, 2}

Event(type, agent, round, idx, c) ==
    [type |-> type, agent |-> agent, round |-> round, idx |-> idx, run |-> c]

InRegistry(ms, id) == \E i \in 1..Len(ms) : ms[i].id = id
Entry(ms, id) == ms[CHOOSE i \in 1..Len(ms) : ms[i].id = id]

\* `if len(_matches) >= MAX_MATCHES: _matches.popitem(last=False)`
evict_gt(ms) == IF Len(ms) > MAX_MATCHES THEN Tail(ms) ELSE ms

evict(ms) == IF Len(ms) >= MAX_MATCHES THEN Tail(ms) ELSE ms

\* `_matches[match_id] = rec`: an OrderedDict keeps the place of a present key
assign(ms, rec) ==
    IF InRegistry(ms, rec.id)
    THEN [i \in 1..Len(ms) |-> IF ms[i].id = rec.id THEN rec ELSE ms[i]]
    ELSE Append(ms, rec)

MatchRecord(id, gt, total_rounds, state) ==
    [id |-> id, game_type |-> gt, total_rounds |-> total_rounds,
     state |-> state, events |-> <<>>]

append_event_create(ms, id, ev) ==
    IF InRegistry(ms, id)
    THEN [i \in 1..Len(ms) |->
            IF ms[i].id = id THEN [ms[i] EXCEPT !.events = Append(@, ev)]
            ELSE ms[i]]
    ELSE Append(ms, [MatchRecord(id, "none", 0, "running") EXCEPT !.events = <<ev>>])

\* `if match_id in _matches: _matches[match_id]["events"].append(event)`
append_event(ms, id, ev) ==
    [i \in 1..Len(ms) |->
        IF ms[i].id = id THEN [ms[i] EXCEPT !.events = Append(@, ev)] ELSE ms[i]]

set_state_none(ms, id, state) == ms

\* `if match_id in _matches: _matches[match_id]["state"] = state`
set_state(ms, id, state) ==
    [i \in 1..Len(ms) |->
        IF ms[i].id = id THEN [ms[i] EXCEPT !.state = state] ELSE ms[i]]

NoGame == [gt |-> "none", round_number |-> 0, total_rounds |-> 0]

InitRun ==
    [pc |-> "init", mid |-> 0, gt |-> "none", total_rounds |-> 0,
     game |-> NoGame, round_num |-> 0,
     res |-> [s \in Sides |-> Pending],
     move |-> [s \in Sides |-> Nothing],
     annot |-> [s \in Sides |-> <<>>],
     pred_side |-> "red", pred_idx |-> 0,
     total_futures_simulated |-> 0,
     correct |-> [s \in Sides |-> 0],
     total_predictions |-> [s \in Sides |-> 0],
     history |-> [s \in Sides |-> <<>>],
     resolves |-> 0, rounds_resolved |-> 0, raised_in |-> {},
     emitted |-> <<>>]

Init ==
    /\ matches = <<>>
    /\ nextId = 1
    /\ run = [c \in Conns |-> InitRun]

\* positions at which the match task is suspended in websocket.send_json(event)
SendPcs == {"match_start", "round_start", "ts_red", "ts_blue", "pred",
            "te_red", "te_blue", "collapse", "round_end", "match_end"}
\* every position at which the match task is suspended and can be cancelled
TaskPcs == SendPcs \cup {"gather", "store", "sleep"}

\* the event being sent at a send position
EventAt(m, c) ==
    LET r == m.game.round_number
    IN  CASE m.pc = "match_start" -> Event("match_start", None, r, 0, c)
          [] m.pc = "round_start" -> Event("round_start", None, r, 0, c)
          [] m.pc = "ts_red" -> Event("thinking_start", "red", r, 0, c)
          [] m.pc = "ts_blue" -> Event("thinking_start", "blue", r, 0, c)
          [] m.pc = "pred" -> Event("prediction", m.pred_side, r, m.pred_idx, c)
          [] m.pc = "te_red" -> Event("thinking_end", "red", r, 0, c)
          [] m.pc = "te_blue" -> Event("thinking_end", "blue", r, 0, c)
          [] m.pc = "collapse" -> Event("collapse", None, r, 0, c)
          [] m.pc = "round_end" -> Event("round_end", None, r, 0, c)
          [] m.pc = "match_end" -> Event("match_end", None, r, 0, c)

\* run_match's `while not self._is_game_over()`: the next round or match_end
loop_head(m) ==
    IF Match_is_game_over(m.gt, m.game)
    THEN [m EXCEPT !.pc = "match_end"]
    ELSE [m EXCEPT !.pc = "round_start", !.round_num = m.game.round_number,
                   !.resolves = 0]

\* asyncio.gather on the two prediction tasks is done
gather_done_any(res) == \E s \in Sides : res[s].status # "pending"

gather_done(res) == \A s \in Sides : res[s].status \in {"returned", "raised"}

\* Python round(n / d, 2) in hundredths: the nearest hundredth, an exact tie
\* going to the even one
round_hundredths(n, d) ==
    LET q == (100 * n) \div d
        r == (100 * n) % d
    IN  IF 2 * r < d THEN q
        ELSE IF 2 * r > d THEN q + 1
        ELSE IF q % 2 = 0 THEN q ELSE q + 1

\* run_match: the predictionAccuracy of a side in match_end, in hundredths
prediction_accuracy(m, side) ==
    IF m.total_predictions[side] > 0
    THEN round_hundredths(m.correct[side], m.total_predictions[side])
    ELSE 0

after_predictions_red(m) ==
    [m EXCEPT !.pc = "te_red",
              !.total_futures_simulated = @ + Len(m.res["red"].predictions)]

\* _run_round after its last prediction yield
after_predictions(m) ==
    [m EXCEPT !.pc = "te_red",
              !.total_futures_simulated =
                  @ + Len(m.res["red"].predictions) + Len(m.res["blue"].predictions)]

\* _run_round from the gather to its next yield
after_gather(m) ==
    IF Len(m.res["red"].predictions) > 0
    THEN [m EXCEPT !.pc = "pred", !.pred_side = "red", !.pred_idx = 1]
    ELSE IF Len(m.res["blue"].predictions) > 0
    THEN [m EXCEPT !.pc = "pred", !.pred_side = "blue", !.pred_idx = 1]
    ELSE after_predictions(m)

\* _run_round after a prediction yield
after_prediction(m) ==
    IF m.pred_idx < Len(m.res[m.pred_side].predictions)
    THEN [m EXCEPT !.pred_idx = @ + 1]
    ELSE IF m.pred_side = "red" /\ Len(m.res["blue"].predictions) > 0
    THEN [m EXCEPT !.pred_side = "blue", !.pred_idx = 1]
    ELSE after_predictions(m)

\* _run_round between the thinking_end of blue and the collapse yield
resolve_step(m, coin) ==
    LET red_move == chosen_or_default(m.gt, m.res["red"])
        blue_move == chosen_or_default(m.gt, m.res["blue"])
        out == Match_resolve_round(m.gt, red_move, blue_move, m.game, coin)
        red_annot == annotate_predictions(m.gt, m.res["red"].predictions, blue_move)
        blue_annot == annotate_predictions(m.gt, m.res["blue"].predictions, red_move)
    IN  [m EXCEPT !.pc = "collapse",
                  !.move = [red |-> Some(red_move), blue |-> Some(blue_move)],
                  !.game = out.state,
                  !.annot = [red |-> red_annot, blue |-> blue_annot],
                  !.correct = [red |-> @["red"] + CountCorrect(red_annot),
                               blue |-> @["blue"] + CountCorrect(blue_annot)],
                  !.total_predictions = [red |-> @["red"] + Len(red_annot),
                                         blue |-> @["blue"] + Len(blue_annot)],
                  !.resolves = @ + 1,
                  !.rounds_resolved = @ + 1]

after_collapse_skip(m) ==
    [m EXCEPT !.pc = "store",
              !.history = [s \in Sides |-> Append(@[s], Val(m.move[s]))]]

\* _run_round between the collapse yield and the round_end yield
after_collapse(m) ==
    [m EXCEPT !.pc = "round_end",
              !.history = [s \in Sides |-> Append(@[s], Val(m.move[s]))]]

after_store_twice(m) ==
    [m EXCEPT !.pc = "sleep",
              !.game.round_number = @ + 2,
              !.res = [s \in Sides |-> Pending],
              !.move = [s \in Sides |-> Nothing],
              !.annot = [s \in Sides |-> <<>>]]

\* _run_round returns; run_match advances the round counter and sleeps
after_store(m) ==
    [m EXCEPT !.pc = "sleep",
              !.game.round_number = @ + 1,
              !.res = [s \in Sides |-> Pending],
              !.move = [s \in Sides |-> Nothing],
              !.annot = [s \in Sides |-> <<>>]]

\* the match task from the completion of a send to its next suspension
after_send(m, coin) ==
    CASE m.pc = "match_start" -> loop_head(m)
      [] m.pc = "round_start" -> [m EXCEPT !.pc = "ts_red"]
      [] m.pc = "ts_red" -> [m EXCEPT !.pc = "ts_blue"]
      [] m.pc = "ts_blue" -> [m EXCEPT !.pc = "gather"]
      [] m.pc = "pred" -> after_prediction(m)
      [] m.pc = "te_red" -> [m EXCEPT !.pc = "te_blue"]
      [] m.pc = "te_blue" -> resolve_step(m, coin)
      [] m.pc = "collapse" -> after_collapse(m)
      [] m.pc = "round_end" -> [m EXCEPT !.pc = "store"]
      [] m.pc = "match_end" -> [m EXCEPT !.pc = "finishing"]

\* the step from m to m2 passes a call of the metrics sink: log_prediction
\* in _annotate_predictions, log_round_latency_value after round_end, or
\* log_match_result before match_end
metrics_called(m, m2) ==
    \/ m.pc = "te_blue" /\ \E s \in Sides : Len(m.res[s].predictions) > 0
    \/ m.pc = "round_end"
    \/ m.pc # "match_end" /\ m2.pc = "match_end"

\* the match task when the first log_prediction call of a resolution raises:
\* the round is resolved and one prediction has been counted
log_prediction_raised(m, m2) ==
    LET s == IF Len(m.res["red"].predictions) > 0 THEN "red" ELSE "blue"
    IN  [m2 EXCEPT !.annot = m.annot,
                   !.move = m.move,
                   !.correct = [m.correct EXCEPT
                                  ![s] = @ + (IF m2.annot[s][1].wasCorrect
                                              THEN 1 ELSE 0)],
                   !.total_predictions = [m.total_predictions EXCEPT ![s] = @ + 1]]

\* the step from m to m2 when the metrics sink works (ok) or raises: the
\* calls are not guarded, the exception leaves run_match, the match task
\* ends with it and websocket_match reports an error to the client
with_sinks(m, m2, ok) ==
    IF ok \/ ~metrics_called(m, m2) THEN m2
    ELSE IF m.pc = "te_blue"
    THEN [log_prediction_raised(m, m2) EXCEPT !.pc = "errored"]
    ELSE IF m.pc = "round_end"
    THEN [m2 EXCEPT !.pc = "errored"]
    ELSE [m EXCEPT !.pc = "errored"]

\* the generator yields the event of the send position it has reached
yield_event(m, c) ==
    IF m.pc \in SendPcs THEN [m EXCEPT !.emitted = Append(@, EventAt(m, c))] ELSE m

\* ------------------------------------------------------------------------
\* Operations.  P is the scenario explored: the connections that open, the
\* ids they name, the start_match payloads and the decide outcomes.
\* ------------------------------------------------------------------------
\* POST /api/match/create
create_match(P, gt, rounds) ==
    /\ nextId <= P.creates
    /\ matches' = assign(evict(matches), MatchRecord(nextId, gt, rounds, "created"))
    /\ nextId' = nextId + 1
    /\ UNCHANGED run

\* websocket_match: accept a connection on /ws/match/{id}; a client names an
\* id of its own making (0) or one POST /api/match/create has handed out
Connect(c, id) ==
    /\ run[c].pc = "init"
    /\ id < nextId
    /\ run' = [run EXCEPT ![c].pc = "accepted", ![c].mid = id]
    /\ UNCHANGED <<matches, nextId>>

\* websocket_match: the wait for start_match times out, or the first message
\* is not start_match; the connection is closed
HandshakeError(c) ==
    /\ run[c].pc = "accepted"
    /\ run' = [run EXCEPT ![c].pc = "closed"]
    /\ UNCHANGED <<matches, nextId>>

\* websocket_match: WebSocketDisconnect while waiting for start_match
HandshakeDisconnect(c) ==
    /\ run[c].pc = "accepted"
    /\ matches' = set_state(matches, run[c].mid, "disconnected")
    /\ run' = [run EXCEPT ![c].pc = "disconnected"]
    /\ UNCHANGED nextId

\* websocket_match: start_match received; the record is stored as running,
\* the Match is built and its task runs to the send of match_start
StartMatch(c, gt, rounds, red_draw, blue_draw) ==
    /\ run[c].pc = "accepted"
    /\ matches' = assign(evict(matches),
                         MatchRecord(run[c].mid, gt, rounds, "running"))
    /\ run' = [run EXCEPT
                 ![c] = yield_event(
                            [@ EXCEPT
                               !.pc = "match_start",
                               !.gt = gt,
                               !.total_rounds = rounds,
                               !.game = Match_post_init(gt, rounds, red_draw,
                                                        blue_draw)], c)]
    /\ UNCHANGED nextId

\* _stream_events: send_json(event) returns, the event is logged, and the
\* match task runs on to its next suspension
SendDone(c, coin, ok) ==
    /\ run[c].pc \in SendPcs
    /\ matches' = append_event(matches, run[c].mid, EventAt(run[c], c))
    /\ run' = [run EXCEPT
                 ![c] = yield_event(
                            with_sinks(run[c], after_send(run[c], coin), ok), c)]
    /\ UNCHANGED nextId

decide_inputs_peek(m, side) ==
    [game_state |-> m.game,
     opponent_history |->
         IF m.res[Other(side)].status = "returned"
         THEN Append(m.history[Other(side)], Val(m.res[Other(side)].chosen_move))
         ELSE m.history[Other(side)],
     my_history |-> m.history[side]]

\* the arguments _get_prediction hands to a side's predict_opponent: the
\* game state and the two move histories as they stand when the task runs
decide_inputs(m, side) ==
    [game_state |-> m.game,
     opponent_history |-> m.history[Other(side)],
     my_history |-> m.history[side]]

\* one side's prediction task ends: the agent returns `outcome` or raises
Decide(c, side, outcome) ==
    /\ run[c].pc = "gather"
    /\ run[c].res[side].status = "pending"
    /\ run' = [run EXCEPT
                 ![c].res[side] = get_prediction(run[c].gt, outcome),
                 ![c].raised_in = IF outcome.status = "raised"
                                  THEN @ \cup {run[c].round_num} ELSE @]
    /\ UNCHANGED <<matches, nextId>>

\* _run_round resumes from `await asyncio.gather(red_task, blue_task)`
Join(c) ==
    /\ run[c].pc = "gather"
    /\ gather_done(run[c].res)
    /\ run' = [run EXCEPT ![c] = yield_event(after_gather(run[c]), c)]
    /\ UNCHANGED <<matches, nextId>>

\* _run_round resumes from the awaited Neo4j store and returns
StoreDone(c) ==
    /\ run[c].pc = "store"
    /\ run' = [run EXCEPT ![c] = after_store(run[c])]
    /\ UNCHANGED <<matches, nextId>>

\* run_match resumes from asyncio.sleep(round_delay)
SleepDone(c, ok) ==
    /\ run[c].pc = "sleep"
    /\ run' = [run EXCEPT
                 ![c] = yield_event(with_sinks(run[c], loop_head(run[c]), ok), c)]
    /\ UNCHANGED <<matches, nextId>>

\* the client goes away while the match task is suspended: _detect_disconnect
\* returns (or send_json raises WebSocketDisconnect) and the task is cancelled
Disconnect(c) ==
    /\ run[c].pc \in TaskPcs
    /\ run' = [run EXCEPT ![c].pc = "cancelled"]
    /\ UNCHANGED <<matches, nextId>>

\* websocket_match after the cancelled task has been awaited
MarkDisconnected(c) ==
    /\ run[c].pc = "cancelled"
    /\ matches' = set_state(matches, run[c].mid, "disconnected")
    /\ run' = [run EXCEPT ![c].pc = "disconnected"]
    /\ UNCHANGED nextId

\* websocket_match after the match task has finished without an exception
Finish(c) ==
    /\ run[c].pc = "finishing"
    /\ matches' = set_state(matches, run[c].mid, "completed")
    /\ run' = [run EXCEPT ![c].pc = "completed"]
    /\ UNCHANGED nextId

\* what the agent of a side may do in a scenario: return a move with some
\* guesses, return no usable move, raise, or never return ("never": its
\* prediction task stays pending for good)
Outcomes(P, gt) ==
    {PredictionResult("returned", P.guesses[gt], Some(mv)) : mv \in P.moves[gt]}
    \cup {PredictionResult(st, <<>>, Nothing) : st \in P.failures}

Coins(m) == IF m.pc = "te_blue" /\ m.gt = "auction" THEN Sides ELSE {"red"}

NextP(P) ==
    \/ \E gt \in P.types, rounds \in P.rest_rounds : create_match(P, gt, rounds)
    \/ \E c \in P.conns, id \in P.ids : Connect(c, id)
    \/ \E c \in P.conns : HandshakeError(c)
    \/ \E c \in P.conns : HandshakeDisconnect(c)
    \/ \E c \in P.conns, gt \in P.types, d \in P.draws :
           \E rounds \in P.rounds[c] : StartMatch(c, gt, rounds, d[1], d[2])
    \/ \E c \in P.conns, ok \in P.sink_ok :
           \E coin \in Coins(run[c]) : SendDone(c, coin, ok)
    \/ \E c \in P.conns, side \in Sides :
           \E outcome \in Outcomes(P, run[c].gt) : Decide(c, side, outcome)
    \/ \E c \in P.conns : Join(c)
    \/ \E c \in P.conns : StoreDone(c)
    \/ \E c \in P.conns, ok \in P.sink_ok : SleepDone(c, ok)
    \/ \E c \in P.conns : Disconnect(c)
    \/ \E c \in P.conns : MarkDisconnected(c)
    \/ \E c \in P.conns : Finish(c)

\* the steps the event loop takes once their awaited operation is done
Progress(P) ==
    \/ \E c \in P.conns, ok \in P.sink_ok :
           \E coin \in Coins(run[c]) : SendDone(c, coin, ok)
    \/ \E c \in P.conns, side \in Sides :
           \E outcome \in Outcomes(P, run[c].gt) : Decide(c, side, outcome)
    \/ \E c \in P.conns, ok \in P.sink_ok :
           Join(c) \/ StoreDone(c) \/ SleepDone(c, ok)
    \/ \E c \in P.conns : MarkDisconnected(c) \/ Finish(c)

GameTypes == {"resource_wars", "negotiation", "auction"}

\* the variant tags the match-creation call accepts
VALID_GAME_TYPES == {"resource_wars", "negotiation", "auction", "gpu_bidding"}

\* the move and the guesses an agent returns in the scenarios
ScenarioMoves ==
    [gt \in VALID_GAME_TYPES \cup {"none"} |->
        CASE gt = "negotiation" -> {NegotiationMove("propose", 70)}
          [] gt = "auction" -> {AuctionMove("bluff_bid", 100)}
          [] OTHER -> {Move("aggressive_bid", "A", 80)}]

ScenarioGuesses ==
    [gt \in VALID_GAME_TYPES \cup {"none"} |->
        CASE gt = "negotiation" -> <<Guess("propose", 70)>>
          [] gt = "auction" -> <<Guess("bluff_bid", 50)>>
          [] OTHER -> <<Guess("aggressive_bid", "A")>>]

NoGuesses == [gt \in VALID_GAME_TYPES \cup {"none"} |-> <<>>]

\* Spec: one connection, every game type, every decide outcome
SpecScenario ==
    [conns |-> {1}, ids |-> {0, 1}, creates |-> MaxCreates,
     types |-> GameTypes, rest_rounds |-> {1},
     rounds |-> [c \in Conns |-> 0..MaxRounds],
     draws |-> {<<0, 0>>},
     moves |-> ScenarioMoves, guesses |-> ScenarioGuesses,
     failures |-> {"raised", "returned"},
     sink_ok |-> {TRUE}]

Next == NextP(SpecScenario)

Spec == Init /\ [][Next]_vars

\* Spec with an event loop that is fair to ready steps
FairSpec == Spec /\ WF_vars(Progress(SpecScenario))

\* VariantSpec: one connection, one round, each of the four variant tags
VariantScenario ==
    [conns |-> {1}, ids |-> {0, 1}, creates |-> MaxCreates,
     types |-> VALID_GAME_TYPES, rest_rounds |-> {1},
     rounds |-> [c \in Conns |-> {1}],
     draws |-> {<<0, 0>>},
     moves |-> ScenarioMoves, guesses |-> NoGuesses,
     failures |-> {"raised"},
     sink_ok |-> {TRUE}]

VariantNext == NextP(VariantScenario)

VariantSpec == Init /\ [][VariantNext]_vars

\* SinkSpec: one connection, one round with guesses, and a metrics sink that
\* may raise at each of its calls
SinkScenario ==
    [conns |-> {1}, ids |-> {0, 1}, creates |-> MaxCreates,
     types |-> {"resource_wars"}, rest_rounds |-> {1},
     rounds |-> [c \in Conns |-> {1}],
     draws |-> {<<0, 0>>},
     moves |-> ScenarioMoves, guesses |-> ScenarioGuesses,
     failures |-> {"raised"},
     sink_ok |-> BOOLEAN]

SinkNext == NextP(SinkScenario)

SinkSpec == Init /\ [][SinkNext]_vars

\* GuessSpec: one connection, one round, agents that return three guesses
\* with their move or raise
ThreeGuesses ==
    [gt \in VALID_GAME_TYPES \cup {"none"} |->
        CASE gt = "negotiation" ->
                 <<Guess("propose", 70), Guess("propose", 30),
                   Guess("accept", 0)>>
          [] gt = "auction" ->
                 <<Guess("bluff_bid", 100), Guess("bid", 50),
                   Guess("pass", 0)>>
          [] OTHER ->
                 <<Guess("aggressive_bid", "A"), Guess("aggressive_bid", "B"),
                   Guess("counter", "A")>>]

GuessScenario ==
    [conns |-> {1}, ids |-> {0, 1}, creates |-> MaxCreates,
     types |-> GameTypes, rest_rounds |-> {1},
     rounds |-> [c \in Conns |-> {1}],
     draws |-> {<<0, 0>>},
     moves |-> ScenarioMoves, guesses |-> ThreeGuesses,
     failures |-> {"raised"},
     sink_ok |-> {TRUE}]

GuessNext == NextP(GuessScenario)

GuessSpec == Init /\ [][GuessNext]_vars

\* FallbackSpec: one connection and negotiations of one or two rounds whose
\* walkaway prices are drawn at the ends of their ranges, with agents that
\* ask 70 or raise
WalkawayDraws == {<<0, 0>>, <<25, 0>>, <<0, 25>>, <<25, 25>>}

FallbackScenario ==
    [conns |-> {1}, ids |-> {0, 1}, creates |-> MaxCreates,
     types |-> {"negotiation"}, rest_rounds |-> {1},
     rounds |-> [c \in Conns |-> {1, 2}],
     draws |-> WalkawayDraws,
     moves |-> ScenarioMoves, guesses |-> NoGuesses,
     failures |-> {"raised"},
     sink_ok |-> {TRUE}]

FallbackNext == NextP(FallbackScenario)

FallbackSpec == Init /\ [][FallbackNext]_vars

\* HangSpec: one connection, one round, decide operations that may raise or
\* never complete; the event loop is fair to ready steps
HangScenario ==
    [conns |-> {1}, ids |-> {0, 1}, creates |-> MaxCreates,
     types |-> {"resource_wars"}, rest_rounds |-> {1},
     rounds |-> [c \in Conns |-> {1}],
     draws |-> {<<0, 0>>},
     moves |-> ScenarioMoves, guesses |-> ScenarioGuesses,
     failures |-> {"raised", "never"},
     sink_ok |-> {TRUE}]

HangNext == NextP(HangScenario)

HangSpec == Init /\ [][HangNext]_vars /\ WF_vars(Progress(HangScenario))

\* TwinSpec: two connections play the same two-round match under different
\* ids and their agents choose between two moves, so the runs can differ in
\* one side's move
TwinMoves ==
    [gt \in VALID_GAME_TYPES \cup {"none"} |->
        CASE gt = "negotiation" ->
                 {NegotiationMove("propose", 70), NegotiationMove("reject", 0)}
          [] gt = "auction" -> {AuctionMove("bid", 100), AuctionMove("pass", 0)}
          [] OTHER -> {Move("aggressive_bid", "A", 80), Move("retreat", "A", 0)}]

TwinScenario ==
    [conns |-> Conns, ids |-> {0, 1}, creates |-> MaxCreates,
     types |-> {"resource_wars"}, rest_rounds |-> {1},
     rounds |-> [c \in Conns |-> {2}],
     draws |-> {<<0, 0>>},
     moves |-> TwinMoves, guesses |-> NoGuesses,
     failures |-> {},
     sink_ok |-> {TRUE}]

\* each connection runs the match it names (connection c names id c - 1) to
\* its end; no client disconnects
TwinNext ==
    \/ \E gt \in TwinScenario.types, rounds \in TwinScenario.rest_rounds :
           create_match(TwinScenario, gt, rounds)
    \/ \E c \in Conns : Connect(c, c - 1)
    \/ \E c \in Conns, gt \in TwinScenario.types, d \in TwinScenario.draws :
           \E rounds \in TwinScenario.rounds[c] :
               StartMatch(c, gt, rounds, d[1], d[2])
    \/ \E c \in Conns : SendDone(c, "red", TRUE)
    \/ \E c \in Conns, side \in Sides :
           \E outcome \in Outcomes(TwinScenario, run[c].gt) :
               Decide(c, side, outcome)
    \/ \E c \in Conns : Join(c)
    \/ \E c \in Conns : StoreDone(c)
    \/ \E c \in Conns : SleepDone(c, TRUE)
    \/ \E c \in Conns : Finish(c)

TwinSpec == Init /\ [][TwinNext]_vars

\* ConcSpec: two connections that may name the same id; the second one
\* starts a match of no rounds
ConcScenario ==
    [conns |-> Conns, ids |-> {0, 1}, creates |-> MaxCreates,
     types |-> {"resource_wars"}, rest_rounds |-> {1},
     rounds |-> [c \in Conns |-> IF c = 1 THEN {1} ELSE {0}],
     draws |-> {<<0, 0>>},
     moves |-> ScenarioMoves, guesses |-> NoGuesses,
     failures |-> {},
     sink_ok |-> {TRUE}]

ConcNext == NextP(ConcScenario)

ConcSpec == Init /\ [][ConcNext]_vars

\* RegSpec: one connection on one of the first two created ids while create-match requests fill
\* the registry past its capacity; the event loop is fair to ready steps
RegScenario ==
    [conns |-> {1}, ids |-> {1, 2}, creates |-> MAX_MATCHES + ExtraCreates,
     types |-> {"resource_wars"}, rest_rounds |-> {1},
     rounds |-> [c \in Conns |-> {1}],
     draws |-> {<<0, 0>>},
     moves |-> ScenarioMoves, guesses |-> ScenarioGuesses,
     failures |-> {"raised"},
     sink_ok |-> {TRUE}]

RegNext == NextP(RegScenario)

RegSpec == Init /\ [][RegNext]_vars /\ WF_vars(Progress(RegScenario))

\* ------------------------------------------------------------------------
\* EngineSpec: the three engines driven round by round with moves drawn
\* from bounded sets, on two copies of one match that receive the same
\* moves and each its own tie-break draw
\* ------------------------------------------------------------------------
\* the moves the two sides choose from, per engine
EngineMoves(gt) ==
    CASE gt = "negotiation" ->
             {NegotiationMove(t, p) :
                 t \in {"propose", "accept", "reject", "counter_offer",
                        "bluff_walkaway"},
                 p \in {30, 45, 70}}
      [] gt = "auction" ->
             {AuctionMove(t, a) :
                 t \in {"bid", "bluff_bid"},
                 a \in {-20, 0, 50, 75, 200, 300, 1000}}
             \cup {AuctionMove("pass", 0), AuctionMove("pass", 50)}
      [] OTHER ->
             {Move("aggressive_bid", "A", 100), Move("aggressive_bid", "B", 35),
              Move("aggressive_bid", "A", -20), Move("defensive_spread", "A", 60),
              Move("bluff", "A", 100), Move("counter", "A", 35),
              Move("counter", "B", 100), Move("retreat", "A", 100)}

\* the outcomes of random.choice(["red", "blue"]) an engine may see
EngineCoins(gt) == IF gt = "auction" THEN Sides ELSE {"red"}

\* the random draw auction_engine.resolve_round consumes: the coin when the
\* clamped bids tie at a non-zero value, none otherwise
draw_used(gt, red_move, blue_move, gs, coin) ==
    IF gt = "auction" /\ ~IsNone(current_item(gs))
       /\ Min(effective_bid(red_move), gs.credits["red"])
              = Min(effective_bid(blue_move), gs.credits["blue"])
       /\ Min(effective_bid(red_move), gs.credits["red"]) # 0
    THEN coin ELSE None

\* one copy of a match before its first round
EngineRun(gt, total_rounds) ==
    [pc |-> "engine", gt |-> gt, total_rounds |-> total_rounds,
     game |-> Match_post_init(gt, total_rounds, 0, 0),
     before |-> Nothing, move |-> [s \in Sides |-> Nothing],
     resolution |-> Nothing, draw |-> None]

\* one pass of run_match's loop without the events: resolve the round, then
\* `round_number += 1`
engine_round(m, red_move, blue_move, coin) ==
    LET out == Match_resolve_round(m.gt, red_move, blue_move, m.game, coin)
    IN  [m EXCEPT !.game = [out.state EXCEPT !.round_number = @ + 1],
                  !.before = Some(m.game),
                  !.move = [red |-> Some(red_move), blue |-> Some(blue_move)],
                  !.resolution = Some(out.resolution),
                  !.draw = draw_used(m.gt, red_move, blue_move, m.game, coin)]

EngineInit ==
    /\ matches = <<>>
    /\ nextId = 1
    /\ \E gt \in GameTypes : run = [c \in Conns |-> EngineRun(gt, EngineRounds)]

EngineResolve(red_move, blue_move, coins) ==
    /\ \A c \in Conns : ~Match_is_game_over(run[c].gt, run[c].game)
    /\ run' = [c \in Conns |->
                 engine_round(run[c], red_move, blue_move, coins[c])]
    /\ UNCHANGED <<matches, nextId>>

EngineNext ==
    \E red_move, blue_move \in EngineMoves(run[1].gt) :
        \E coins \in [Conns -> EngineCoins(run[1].gt)] :
            EngineResolve(red_move, blue_move, coins)

EngineSpec == EngineInit /\ [][EngineNext]_vars

\* AuctionSpec: one auction played to its end, for short, exact and
\* over-long configured lengths, with all-in bids and passes
AuctionLengths == {1, 7, 8, 9, 50}

AuctionMoves ==
    {AuctionMove("bid", 1000), AuctionMove("bid", 400), AuctionMove("pass", 0)}

AuctionInit ==
    /\ matches = <<>>
    /\ nextId = 1
    /\ \E n \in AuctionLengths :
          run = [c \in Conns |->
                   IF c = 1 THEN EngineRun("auction", n) ELSE InitRun]

AuctionRound(red_move, blue_move, coin) ==
    /\ ~Match_is_game_over(run[1].gt, run[1].game)
    /\ run' = [run EXCEPT ![1] = engine_round(@, red_move, blue_move, coin)]
    /\ UNCHANGED <<matches, nextId>>

AuctionNext ==
    \E red_move, blue_move \in AuctionMoves, coin \in Sides :
        AuctionRound(red_move, blue_move, coin)

AuctionSpec == AuctionInit /\ [][AuctionNext]_vars

\* GpuSpec: the GPU marketplace engine driven round by round. A round puts
\* one catalogue entry on the block, resolves the two moves and advances
\* current_round, for as long as is_gpu_game_over is false
GpuRounds == 3

\* the catalogue entries select_round_gpu draws in GpuSpec
GpuBlock == {1, 5}

GpuBidMoves ==
    {GPUBidMove(t, a, 1) : t \in {"bid", "surge_bid"}, a \in {400, 20000}}
    \cup {GPUBidMove("pass", 0, 1), GPUBidMove("wait", 0, 1)}

NeocloudMoves ==
    {NeocloudMove("hold", 0), NeocloudMove("surge_pricing", 30),
     NeocloudMove("surge_pricing", 3000), NeocloudMove("discount", 80),
     NeocloudMove("set_price", -20)}

GpuRun(surged) ==
    [pc |-> "gpu", gt |-> "gpu_bidding",
     game |-> GPUAuctionState(surged),
     before |-> Nothing, move |-> [s \in Sides |-> Nothing],
     resolution |-> Nothing]

gpu_round(m, k, user_move, neocloud_move) ==
    LET selected == select_round_gpu(m.game, k)
        out == resolve_gpu_round(selected, user_move, neocloud_move)
    IN  [m EXCEPT !.game = [out.state EXCEPT !.current_round = @ + 1],
                  !.before = Some(selected),
                  !.move = [red |-> Some(user_move),
                            blue |-> Some(neocloud_move)],
                  !.resolution = Some(out.resolution)]

GpuInit ==
    /\ matches = <<>>
    /\ nextId = 1
    /\ \E surged \in {{}, {1}} :
          run = [c \in Conns |-> IF c = 1 THEN GpuRun(surged) ELSE InitRun]

GpuRound(k, user_move, neocloud_move) ==
    /\ ~is_gpu_game_over(run[1].game)
    /\ run[1].game.current_round < GpuRounds
    /\ run' = [run EXCEPT ![1] = gpu_round(@, k, user_move, neocloud_move)]
    /\ UNCHANGED <<matches, nextId>>

GpuNext ==
    \E k \in GpuBlock, user_move \in GpuBidMoves,
       neocloud_move \in NeocloudMoves :
        GpuRound(k, user_move, neocloud_move)

GpuSpec == GpuInit /\ [][GpuNext]_vars

\* ------------------------------------------------------------------------
\* Properties
\* ------------------------------------------------------------------------
\* the events one match run has produced, the one being sent included
Yielded(c) == run[c].emitted

\* place of an event type inside its round
Phase(type) ==
    CASE type = "round_start" -> 0
      [] type = "thinking_start" -> 1
      [] type \in {"prediction", "thinking_end"} -> 2
      [] type = "collapse" -> 3
      [] type = "round_end" -> 4
      [] OTHER -> 0

IsRoundEvent(e) == e.type \notin {"match_start", "match_end"}

Occurrences(seq, type, agent, round) ==
    Cardinality({i \in 1..Len(seq) :
        seq[i].type = type /\ seq[i].agent = agent /\ seq[i].round = round})

WellOrdered(seq) ==
    /\ Len(seq) > 0 => seq[1].type = "match_start"
    /\ \A i \in 1..Len(seq) :
        /\ seq[i].type = "match_start" => i = 1
        /\ seq[i].type = "match_end" => i = Len(seq)
    /\ \A i, j \in 1..Len(seq) :
        (i < j /\ IsRoundEvent(seq[i]) /\ IsRoundEvent(seq[j])) =>
            \/ seq[i].round < seq[j].round
            \/ /\ seq[i].round = seq[j].round
               /\ Phase(seq[i].type) <= Phase(seq[j].type)
    /\ \A i \in 1..Len(seq) :
        LET r == seq[i].round
            n(type, agent) == Occurrences(SubSeq(seq, 1, i - 1), type, agent, r)
        IN  /\ seq[i].type = "round_start" =>
                /\ n("round_start", None) = 0
                /\ \A k \in 1..(i - 1) :
                      (IsRoundEvent(seq[k]) /\ seq[k].round < r) =>
                          Occurrences(SubSeq(seq, 1, i - 1), "round_end", None,
                                      seq[k].round) = 1
            /\ seq[i].type = "thinking_start" =>
                /\ n("round_start", None) = 1
                /\ n("thinking_start", seq[i].agent) = 0
            /\ seq[i].type \in {"prediction", "thinking_end"} =>
                /\ \A s \in Sides : n("thinking_start", s) = 1
                /\ seq[i].type = "thinking_end" =>
                       n("thinking_end", seq[i].agent) = 0
            /\ seq[i].type = "collapse" =>
                /\ \A s \in Sides : n("thinking_end", s) = 1
                /\ n("collapse", None) = 0
            /\ seq[i].type = "round_end" =>
                /\ n("collapse", None) = 1
                /\ n("round_end", None) = 0
            /\ seq[i].type = "match_end" =>
                \A k \in 1..(i - 1) :
                    IsRoundEvent(seq[k]) =>
                        Occurrences(SubSeq(seq, 1, i - 1), "round_end", None,
                                    seq[k].round) = 1

\* C1: the events of one match run start with match_start, end with
\* match_end when it is emitted, and inside each round come in the order
\* round_start, both thinking_start, the prediction and thinking_end events
\* of both sides, one collapse, one round_end; no event of a later round
\* comes before the round_end of an earlier one.
C1_EventOrder == \A c \in Conns : WellOrdered(Yielded(c))

\* a run that has streamed two whole rounds, with predictions, to match_end
C1_Witness ==
    \E c \in Conns :
        /\ run[c].pc = "completed"
        /\ Occurrences(run[c].emitted, "round_end", None, 2) = 1
        /\ Occurrences(run[c].emitted, "prediction", "red", 1) = 1
        /\ Occurrences(run[c].emitted, "prediction", "blue", 2) = 1

\* positions of a round before and after its resolution
BeforeResolve == {"round_start", "ts_red", "ts_blue", "gather", "pred",
                  "te_red", "te_blue"}
AfterResolve == {"collapse", "round_end", "store"}

\* C2: in every round resolveRound is invoked exactly once, and only after
\* both sides' decide operations have completed or been replaced by the
\* default move, under every interleaving of the two completions.
C2_ResolveAfterJoin ==
    \A c \in Conns :
        LET m == run[c]
        IN  /\ m.pc \in BeforeResolve => m.resolves = 0
            /\ m.pc \in AfterResolve =>
                /\ m.resolves = 1
                /\ \A s \in Sides : m.res[s].status \in {"returned", "raised"}
                /\ \A s \in Sides : ~IsNone(m.move[s])
            /\ m.rounds_resolved =
                   Cardinality({i \in 1..Len(Yielded(c)) :
                                   Yielded(c)[i].type = "collapse"})

\* a round resolved after red returned a move and blue raised
C2_Witness ==
    \E c \in Conns :
        /\ run[c].pc = "collapse"
        /\ run[c].res["red"].status = "returned"
        /\ run[c].res["blue"].status = "raised"
        /\ run[c].rounds_resolved = 2

EngineDefault(gt) ==
    CASE gt = "negotiation" -> [type |-> "propose", price |-> 50]
      [] gt = "auction" -> [type |-> "bid", amount |-> 50]
      [] OTHER -> [type |-> "defensive_spread", target |-> "A", amount |-> 60]

\* run c has emitted the collapse and the round_end of round r
RoundDone(c, r) ==
    /\ Occurrences(run[c].emitted, "collapse", None, r) = 1
    /\ Occurrences(run[c].emitted, "round_end", None, r) = 1

\* C3: when one side's decide operation raises, that side's move is the
\* variant's default move and the other side's returned move is used
\* unchanged; the round of the raise is resolved and emits its collapse and
\* its round_end, and the run goes on from it to the next round or to
\* match_end.
C3_Fallback ==
    \A c \in Conns :
        /\ \A s \in Sides :
              run[c].pc \in AfterResolve =>
                /\ run[c].res[s].status = "raised" =>
                       Val(run[c].move[s]) = EngineDefault(run[c].gt)
                /\ (run[c].res[s].status = "returned"
                    /\ ~IsNone(run[c].res[s].chosen_move)) =>
                       run[c].move[s] = run[c].res[s].chosen_move
        /\ \A r \in run[c].raised_in :
              /\ r <= run[c].round_num
              /\ (run[c].pc \in {"store", "sleep", "match_end", "finishing",
                                 "completed"}
                  \/ (run[c].pc \in TaskPcs /\ run[c].round_num > r)) =>
                     /\ RoundDone(c, r)
                     /\ Len(run[c].history["red"]) >= r
                     /\ run[c].rounds_resolved >= r

\* a negotiation match that went on to its second round after a first
\* round resolved with red's returned offer and blue's default
C3_Witness ==
    \E c \in Conns :
        /\ run[c].pc = "round_start"
        /\ run[c].round_num = 2
        /\ 1 \in run[c].raised_in
        /\ run[c].history["red"][1] = NegotiationMove("propose", 70)
        /\ run[c].history["blue"][1] = NegotiationMove("propose", 50)
        /\ RoundDone(c, 1)

\* number of events of a type among those a run has emitted
Emitted(c, type) ==
    Cardinality({i \in 1..Len(run[c].emitted) : run[c].emitted[i].type = type})

\* the step in which websocket_match finds the match task finished
FinishStep(c) == run[c].pc = "finishing" /\ run'[c].pc = "completed"

\* the run of a connection has ended with its match_end sent exactly once
\* and no more rounds resolved than the match was started with
EndedOnce(c) ==
    /\ Emitted(c, "match_end") = 1
    /\ run[c].rounds_resolved <= run[c].total_rounds

\* C4 as stated: a match whose task finishes has emitted match_end exactly
\* once, resolved at most totalRounds rounds, and its registry record is
\* then marked completed.
C4_MarkedCompleted ==
    [][\A c \in Conns :
         FinishStep(c) =>
             /\ EndedOnce(c)
             /\ InRegistry(matches', run[c].mid)
             /\ Entry(matches', run[c].mid).state = "completed"]_vars

\* C4, amended: provided the decide operations complete or fail and the
\* transport does not disconnect, every started match emits match_end
\* exactly once after resolving at most totalRounds rounds and its task
\* finishes; its registry record, if the registry still holds one for its
\* id, is then marked completed.
C4_Termination ==
    /\ [][\A c \in Conns :
            FinishStep(c) =>
                /\ EndedOnce(c)
                /\ InRegistry(matches', run[c].mid) =>
                       Entry(matches', run[c].mid).state = "completed"]_vars
    /\ \A c \in Conns :
           (run[c].pc \in TaskPcs) ~>
               \/ run[c].pc = "completed" /\ EndedOnce(c)
               \/ run[c].pc \in {"cancelled", "disconnected"}

\* a match that ran its round to match_end and whose record, still in the
\* registry, is marked completed
C4_Witness ==
    \E c \in Conns :
        /\ run[c].pc = "completed"
        /\ run[c].rounds_resolved = 1
        /\ Emitted(c, "match_end") = 1
        /\ InRegistry(matches, run[c].mid)
        /\ Entry(matches, run[c].mid).state = "completed"
        /\ Len(Entry(matches, run[c].mid).events) = Len(run[c].emitted)

\* ids that can have a record
Ids == 0..(MAX_MATCHES + ExtraCreates)

\* the state changes the match state machine allows
AllowedChange(old, new) ==
    \/ new = old
    \/ old = "created" /\ new = "running"
    \/ old = "running" /\ new \in {"completed", "disconnected"}

\* C5: the registry state of a match id only changes along created ->
\* running -> completed or created -> running -> disconnected; a record that
\* is completed or disconnected never becomes running again.
C5_StateMachine ==
    [][\A id \in Ids :
         (InRegistry(matches, id) /\ InRegistry(matches', id)) =>
             AllowedChange(Entry(matches, id).state, Entry(matches', id).state)]_vars

IsPrefix(s, t) == Len(s) <= Len(t) /\ SubSeq(t, 1, Len(s)) = s

\* the match run of connection c was started and has been cancelled
Left(c) == run[c].pc \in {"cancelled", "disconnected"} /\ run[c].gt # "none"

\* C6: once the transport has disconnected under a running match the round
\* loop is cancelled, the record's state becomes disconnected, no event is
\* appended to its log afterwards, and the log holds the events emitted
\* before the disconnect (all but possibly the one that was being sent) in
\* emission order.
C6_Disconnect ==
    /\ [](\A c \in Conns :
            (Left(c) /\ InRegistry(matches, run[c].mid)) =>
                LET rec == Entry(matches, run[c].mid)
                IN  /\ run[c].pc = "disconnected" => rec.state = "disconnected"
                    /\ IsPrefix(rec.events, run[c].emitted)
                    /\ Len(rec.events) >= Len(run[c].emitted) - 1)
    /\ [][\A c \in Conns :
            (Left(c) /\ InRegistry(matches, run[c].mid)
                     /\ InRegistry(matches', run[c].mid)) =>
                Entry(matches', run[c].mid).events
                    = Entry(matches, run[c].mid).events]_vars

\* number of collapse events in a log
Collapses(seq) ==
    Cardinality({i \in 1..Len(seq) : seq[i].type = "collapse"})

\* C7: at every point where the match task can be cancelled, each round
\* whose resolution has been applied to the game state has its collapse
\* event in the match's event log.
C7_ResolutionReported ==
    \A c \in Conns :
        (run[c].pc \in TaskPcs /\ InRegistry(matches, run[c].mid)) =>
            Collapses(Entry(matches, run[c].mid).events) = run[c].rounds_resolved

\* C8: while a match record exists its event log only grows by appending
\* at its end, also when a start_match message arrives for its id.
C8_AppendOnly ==
    [][\A id \in Ids :
         (InRegistry(matches, id) /\ InRegistry(matches', id)) =>
             IsPrefix(Entry(matches, id).events, Entry(matches', id).events)]_vars

\* C9: at most one match task runs for a match id at any time, and the
\* events in one id's log all come from a single match run.
C9_SingleOwner ==
    /\ \A c1, c2 \in Conns :
          (c1 # c2 /\ run[c1].pc \in TaskPcs /\ run[c2].pc \in TaskPcs) =>
              run[c1].mid # run[c2].mid
    /\ \A i \in 1..Len(matches) :
          \A j, k \in 1..Len(matches[i].events) :
              matches[i].events[j].run = matches[i].events[k].run

\* C10: the registry never holds more than MAX_MATCHES entries.
C10_Capacity == Len(matches) <= MAX_MATCHES

\* the registry is full and has evicted entries to stay so, during a match
C10_Witness ==
    /\ Len(matches) = MAX_MATCHES
    /\ nextId = MAX_MATCHES + ExtraCreates + 1
    /\ \E c \in Conns : run[c].pc \in TaskPcs

\* the ids that have a record in a registry
RegistryIds(ms) == {ms[i].id : i \in 1..Len(ms)}

\* C11: a record leaves the registry only in a step that stores an id not
\* present before while the registry holds MAX_MATCHES records, and the
\* record that leaves is then the one inserted earliest.
C11_EvictionRule ==
    [][LET evicted == RegistryIds(matches) \ RegistryIds(matches')
           stored == RegistryIds(matches') \ RegistryIds(matches)
       IN  evicted # {} =>
               /\ Len(matches) = MAX_MATCHES
               /\ stored # {}
               /\ evicted = {matches[1].id}]_vars

\* a match configuration the match-creation call would accept
ValidConfig(gt, total_rounds) ==
    gt \in VALID_GAME_TYPES /\ total_rounds \in 1..50

\* C12: no match with an unsupported variant tag or with totalRounds
\* outside 1..50 is stored as running or handed to the orchestrator.
C12_ConfigValidated ==
    /\ \A i \in 1..Len(matches) :
          matches[i].state = "running" =>
              ValidConfig(matches[i].game_type, matches[i].total_rounds)
    /\ \A c \in Conns :
          run[c].pc \in TaskPcs => ValidConfig(run[c].gt, run[c].total_rounds)

\* C13: a match created with one of the four variant tags holds, in every
\* round from its start to after match_end, a game state of that variant's
\* own rules.
C13_OwnRules ==
    \A c \in Conns :
        (run[c].gt \in VALID_GAME_TYPES
         /\ run[c].pc \in TaskPcs \cup {"finishing", "completed"}) =>
            run[c].game.gt = run[c].gt

\* the match run of connection c has ended without a disconnect
Ended(c) ==
    /\ run[c].gt # "none"
    /\ run[c].pc \notin TaskPcs \cup {"cancelled", "disconnected"}

\* C14: a failure of the persistence or metrics sink leaves the event
\* sequence as it is without the failure: a run that ends without a
\* disconnect has emitted collapse and round_end of every round it resolved
\* and its match_end.
C14_SinksSwallowed ==
    \A c \in Conns :
        Ended(c) =>
            /\ Emitted(c, "match_end") = 1
            /\ \A r \in 1..run[c].rounds_resolved : RoundDone(c, r)

\* C15: every round_start is eventually followed by the round_end of the
\* same round, also when a side's decide operation never completes (unless
\* the client leaves first).
C15_DecideTimeout ==
    \A c \in Conns : \A r \in 1..MaxRounds :
        (run[c].pc = "round_start" /\ run[c].round_num = r) ~>
            \/ Occurrences(run[c].emitted, "round_end", None, r) = 1
            \/ run[c].pc \in {"cancelled", "disconnected"}

CounterMonotone ==
    [][\A c \in Conns :
         (run[c].gt # "none" /\ run'[c].gt # "none") =>
             run'[c].game.round_number >= run[c].game.round_number]_vars

\* C17 as stated, for matches of at least one round: the round counter
\* never decreases and never exceeds totalRounds, from the start of a match
\* to after its match_end.
C17_BoundedByTotal ==
    /\ [](\A c \in Conns :
            (run[c].gt # "none" /\ run[c].total_rounds >= 1) =>
                run[c].game.round_number <= run[c].total_rounds)
    /\ CounterMonotone

\* C17, amended: the round counter starts at 1, never decreases, and never
\* exceeds totalRounds + 1 (1 when totalRounds is below 1): it stands one
\* past the last round played once the loop has ended; the rounds resolved
\* never exceed totalRounds.
C17_RoundCounter ==
    /\ [](\A c \in Conns :
            run[c].gt # "none" =>
                /\ run[c].game.round_number >= 1
                /\ run[c].game.round_number <= Max(1, run[c].total_rounds + 1)
                /\ run[c].game.round_number
                       <= Max(1, run[c].game.total_rounds + 1)
                /\ run[c].rounds_resolved <= Max(0, run[c].total_rounds)
                /\ run[c].rounds_resolved <= run[c].game.round_number)
    /\ CounterMonotone

\* a match of two rounds has ended with its counter at three
C17_Witness ==
    \E c \in Conns :
        /\ run[c].pc = "completed"
        /\ run[c].total_rounds = 2
        /\ run[c].rounds_resolved = 2
        /\ run[c].game.round_number = 3

\* the copies of a match of game type gt that have just resolved a round
Resolved(gt) ==
    {c \in Conns : run[c].pc = "engine" /\ run[c].gt = gt
                   /\ ~IsNone(run[c].before)}

\* the power side s committed to pool r in the round copy c has just resolved
Power(c, s, r) ==
    LET mv == Val(run[c].move[s])
    IN  apply_move(mv, retreat_bonus(mv, Val(run[c].before).economy_bonus[s]), r)

\* what side s should have captured from pool r in that round
Captured(c, s, r) ==
    LET diff == Power(c, s, r) - Power(c, Other(s), r)
        remaining == Val(run[c].before).resources[r]
    IN  IF diff > 0
        THEN (IF remaining <= (IF diff \div 2 >= 5 THEN diff \div 2 ELSE 5)
              THEN remaining
              ELSE (IF diff \div 2 >= 5 THEN diff \div 2 ELSE 5))
        ELSE 0

\* C18: in Resource Wars, a pool on which one side's committed power is
\* strictly greater loses min(remaining, max(5, floor(powerDiff / 2))) units
\* and that side's score gains exactly that amount; a pool on which the
\* powers are equal does not change and adds to no score.
C18_PoolCapture ==
    \A c \in Resolved("resource_wars") :
        LET b == Val(run[c].before)
            g == run[c].game
        IN  /\ \A r \in ResourceSet :
                  b.resources[r] - g.resources[r]
                      = Captured(c, "red", r) + Captured(c, "blue", r)
            /\ \A r \in ResourceSet :
                  Power(c, "red", r) = Power(c, "blue", r) =>
                      g.resources[r] = b.resources[r]
            /\ \A s \in Sides :
                  g.scores[s] - b.scores[s]
                      = Captured(c, s, "A") + Captured(c, s, "B")
                        + Captured(c, s, "C")

\* a second round took the 50 units left in pool A for red (half of a lead
\* of 100, the whole remainder) while the equal powers on pool B moved nothing
C18_Witness ==
    \E c \in Resolved("resource_wars") :
        /\ Val(run[c].before).resources["A"] = 50
        /\ run[c].game.resources["A"] = 0
        /\ Power(c, "red", "A") - Power(c, "blue", "A") = 100
        /\ run[c].game.scores["red"] = Val(run[c].before).scores["red"] + 50
        /\ Power(c, "red", "B") = Power(c, "blue", "B")
        /\ run[c].game.resources["B"] = Val(run[c].before).resources["B"]

\* C19: in Resource Wars every pool stays between 0 and its initial 100,
\* the units a round removes from a pool never exceed what the pool held
\* before the round, and the two scores and the three pools always add up
\* to 300.
C19_Conservation ==
    \A c \in Conns :
        (run[c].pc = "engine" /\ run[c].gt = "resource_wars") =>
            LET g == run[c].game
            IN  /\ \A r \in ResourceSet : g.resources[r] \in 0..100
                /\ g.scores["red"] + g.scores["blue"] + g.resources["A"]
                       + g.resources["B"] + g.resources["C"] = 300
                /\ ~IsNone(run[c].before) =>
                       \A r \in ResourceSet :
                           /\ Val(run[c].before).resources[r] >= g.resources[r]
                           /\ Val(run[c].before).resources[r] - g.resources[r]
                                  <= Val(run[c].before).resources[r]

\* a round asked 75 units of pool B when 25 were left and emptied it
C19_Witness ==
    \E c \in Resolved("resource_wars") :
        /\ Val(run[c].before).resources["B"] = 25
        /\ run[c].game.resources["B"] = 0
        /\ Power(c, "blue", "B") - Power(c, "red", "B") = 150
        /\ run[c].game.scores["blue"] >= 100

\* the last entry of a won-items ledger
LastWon(ledger) == ledger[Len(ledger)]

\* C20: in an auction round the winner's credits drop by exactly the amount
\* paid, which is at most its credits before the round, and its score rises
\* by its private valuation of the item minus the amount paid; the loser's
\* credits, score and won-items ledger do not change; and each side's
\* credits plus total spent is the starting 1000 in every state.
C20_CreditConservation ==
    /\ \A c \in Conns :
          (run[c].pc = "engine" /\ run[c].gt = "auction") =>
              \A s \in Sides :
                  run[c].game.credits[s] + run[c].game.total_spent[s]
                      = STARTING_CREDITS
    /\ \A c \in Resolved("auction") :
          LET b == Val(run[c].before)
              g == run[c].game
              w == Val(run[c].resolution).round_winner
          IN  /\ \A s \in Sides \ {w} :
                    /\ g.credits[s] = b.credits[s]
                    /\ g.scores[s] = b.scores[s]
                    /\ g.won_items[s] = b.won_items[s]
              /\ w \in Sides =>
                    LET paid == LastWon(g.won_items[w]).paid
                        item == b.items[b.round_number]
                        valuation == IF w = "red" THEN item.red_valuation
                                     ELSE item.blue_valuation
                    IN  /\ Len(g.won_items[w]) = Len(b.won_items[w]) + 1
                        /\ g.credits[w] = b.credits[w] - paid
                        /\ paid <= b.credits[w]
                        /\ g.scores[w] = b.scores[w] + valuation - paid

\* the second item went to a side that had 950 credits left, bid 1000 and
\* paid its whole balance
C20_Witness ==
    \E c \in Resolved("auction") :
        \E w \in Sides :
            /\ Val(run[c].resolution).round_winner = w
            /\ Val(run[c].before).credits[w] = 950
            /\ Val(run[c].move[w]) = AuctionMove("bid", 1000)
            /\ LastWon(run[c].game.won_items[w]).paid = 950
            /\ run[c].game.credits[w] = 0
            /\ run[c].game.total_spent[w] = 1000

\* the bid a move competes with: its declared amount, 0 for a pass, capped at
\* the bidder's credits
Competing(move, credits) ==
    Min(IF move.type = "pass" THEN 0 ELSE move.amount, credits)

\* C21: in an auction a bluff-bid competes with its full declared amount
\* capped at the bidder's credits: it takes the item whenever that amount is
\* above the opponent's competing bid, loses it whenever it is below, and a
\* bluff-bid that wins is charged half of the amount it competed with,
\* rounded down; bluff-bid(300) against bid(200) from 1000 credits each pays
\* 150 and leaves 850.
C21_BluffBid ==
    \A c \in Resolved("auction") :
        LET b == Val(run[c].before)
            g == run[c].game
            w == Val(run[c].resolution).round_winner
        IN  \A s \in Sides :
                LET mv == Val(run[c].move[s])
                    own == Competing(mv, b.credits[s])
                    other == Competing(Val(run[c].move[Other(s)]),
                                       b.credits[Other(s)])
                IN  (mv.type = "bluff_bid" /\ ~IsNone(current_item(b))) =>
                        /\ own > other => w = s
                        /\ own < other => w = Other(s)
                        /\ w = s =>
                              /\ LastWon(g.won_items[s]).bid = own
                              /\ LastWon(g.won_items[s]).paid = own \div 2
                              /\ g.credits[s] = b.credits[s] - own \div 2
                        /\ (/\ mv.amount = 300
                            /\ Val(run[c].move[Other(s)]) = AuctionMove("bid", 200)
                            /\ b.credits = [red |-> 1000, blue |-> 1000]) =>
                              /\ w = s
                              /\ LastWon(g.won_items[s]).paid = 150
                              /\ g.credits[s] = 850

\* a bluff-bid of 75 won the item against a lower bid and was charged 37
C21_Witness ==
    \E c \in Resolved("auction") :
        \E s \in Sides :
            /\ Val(run[c].move[s]) = AuctionMove("bluff_bid", 75)
            /\ Val(run[c].move[Other(s)]) = AuctionMove("bid", 50)
            /\ Val(run[c].resolution).round_winner = s
            /\ LastWon(run[c].game.won_items[s]).paid = 37
            /\ run[c].game.credits[s] = Val(run[c].before).credits[s] - 37

\* the moves of the round copy c has just resolved
RedMove(c) == Val(run[c].move["red"])
BlueMove(c) == Val(run[c].move["blue"])

\* a round of copy c struck a deal at price p
DealAt(c, p) ==
    /\ Val(run[c].resolution).deal_struck
    /\ Val(run[c].resolution).deal_price = Some(p)
    /\ run[c].game.deal_price = Some(p)
    /\ run[c].game.deal_round = Some(Val(run[c].before).round_number)

\* C22: in a negotiation without a deal, a round in which both sides propose
\* or counter-offer and the seller's price is at most the buyer's strikes a
\* deal in that round at floor((seller price + buyer price) / 2).
C22_CrossingDeal ==
    \A c \in Resolved("negotiation") :
        (/\ IsNone(Val(run[c].before).deal_price)
         /\ RedMove(c).type \in {"propose", "counter_offer"}
         /\ BlueMove(c).type \in {"propose", "counter_offer"}
         /\ RedMove(c).price <= BlueMove(c).price) =>
            \E p \in 0..100 :
                /\ 2 * p <= RedMove(c).price + BlueMove(c).price
                /\ RedMove(c).price + BlueMove(c).price < 2 * p + 2
                /\ DealAt(c, p)

\* the seller asked 30, the buyer countered at 45 over a standing offer and
\* the deal was struck at 37
C22_Witness ==
    \E c \in Resolved("negotiation") :
        /\ ~IsNone(Val(run[c].before).current_offer)
        /\ RedMove(c) = NegotiationMove("propose", 30)
        /\ BlueMove(c) = NegotiationMove("counter_offer", 45)
        /\ DealAt(c, 37)

\* C23: in a negotiation, when one side proposes or counter-offers price p
\* and the other side accepts in the same round, a deal is struck at p,
\* whether or not a standing offer with a different price is on the table.
C23_AcceptMeetsOffer ==
    \A c \in Resolved("negotiation") :
        \A s \in Sides :
            (/\ Val(run[c].move[s]).type \in {"propose", "counter_offer"}
             /\ Val(run[c].move[Other(s)]).type = "accept") =>
                DealAt(c, Val(run[c].move[s]).price)

\* the ways a negotiation round may strike a deal
DealAllowed(red_move, blue_move, gs) ==
    \/ /\ red_move.type = "accept" /\ blue_move.type = "accept"
       /\ ~IsNone(gs.current_offer)
    \/ \E s \in Sides :
          LET mine == IF s = "red" THEN red_move ELSE blue_move
              theirs == IF s = "red" THEN blue_move ELSE red_move
          IN  /\ mine.type = "accept"
              /\ theirs.type \in {"propose", "counter_offer"}
    \/ /\ red_move.type \in {"propose", "counter_offer"}
       /\ blue_move.type \in {"propose", "counter_offer"}
       /\ red_move.price <= blue_move.price

\* C25: a negotiation round strikes a deal only if both sides accept a
\* standing offer, or one side accepts while the other proposes or
\* counter-offers, or both propose or counter-offer with the seller's price
\* at most the buyer's; no deal is struck in a round where one side accepts
\* and the other rejects or bluffs a walkaway.
C25_DealOnlyWhen ==
    \A c \in Resolved("negotiation") :
        LET struck == \/ Val(run[c].resolution).deal_struck
                      \/ ~IsNone(run[c].game.deal_price)
        IN  /\ struck => DealAllowed(RedMove(c), BlueMove(c), Val(run[c].before))
            /\ \A s \in Sides :
                  (/\ Val(run[c].move[s]).type = "accept"
                   /\ Val(run[c].move[Other(s)]).type
                         \in {"reject", "bluff_walkaway"}) => ~struck

\* C26: a negotiation round in which both sides bluff a walkaway strikes no
\* deal and leaves the game state unchanged: standing offer and its owner,
\* deal price and round, scores and bluff counters.
C26_MutualWalkaway ==
    \A c \in Resolved("negotiation") :
        (RedMove(c).type = "bluff_walkaway"
         /\ BlueMove(c).type = "bluff_walkaway") =>
            LET b == Val(run[c].before)
                g == run[c].game
            IN  /\ ~Val(run[c].resolution).deal_struck
                /\ g.current_offer = b.current_offer
                /\ g.offer_by = b.offer_by
                /\ g.deal_price = b.deal_price
                /\ g.deal_round = b.deal_round
                /\ g.scores = b.scores
                /\ g.bluffs_used = b.bluffs_used

\* the negotiation run by connection c has a deal on record
HasDeal(c) == run[c].gt = "negotiation" /\ ~IsNone(run[c].game.deal_price)

Offering(c) ==
    {s \in Sides : Val(run[c].move[s]).type \in {"propose", "counter_offer"}}

\* C28: after a negotiation round without a deal, if exactly one side
\* proposed or counter-offered the standing offer is that side's price and
\* that side owns it; if both did without crossing it is the seller's price,
\* owned by the seller; if neither did, the standing offer and its owner are
\* unchanged.
C28_StandingOffer ==
    \A c \in Resolved("negotiation") :
        LET b == Val(run[c].before)
            g == run[c].game
        IN  (~Val(run[c].resolution).deal_struck /\ IsNone(g.deal_price)) =>
                /\ \A s \in Sides :
                      Offering(c) = {s} =>
                          /\ g.current_offer = Some(Val(run[c].move[s]).price)
                          /\ g.offer_by = s
                /\ Offering(c) = Sides =>
                      /\ RedMove(c).price > BlueMove(c).price
                      /\ g.current_offer = Some(RedMove(c).price)
                      /\ g.offer_by = "red"
                /\ Offering(c) = {} =>
                      /\ g.current_offer = b.current_offer
                      /\ g.offer_by = b.offer_by

\* the buyer alone countered at 45 over the seller's standing 70 (the seller
\* rejected), and the standing offer became the buyer's 45
C28_Witness ==
    \E c \in Resolved("negotiation") :
        /\ Val(run[c].before).current_offer = Some(70)
        /\ Val(run[c].before).offer_by = "red"
        /\ RedMove(c).type = "reject"
        /\ BlueMove(c) = NegotiationMove("counter_offer", 45)
        /\ ~Val(run[c].resolution).deal_struck
        /\ run[c].game.current_offer = Some(45)
        /\ run[c].game.offer_by = "blue"

\* a move with its amount brought into the domain 0..100
Clamped(move) == [move EXCEPT !.amount = Max(0, Min(100, move.amount))]

\* C24: in Resource Wars a chosen move whose amount lies outside 0..100 is
\* clamped to that domain before resolution: the power a move commits to a
\* pool is the power of the clamped move, is never negative and never above
\* what amount 100 would commit, and a side's economy bonus never decreases.
C24_AmountClamped ==
    \A c \in Resolved("resource_wars") :
        \A s \in Sides :
            LET mv == Val(run[c].move[s])
                bonus == Val(run[c].before).economy_bonus[s]
                full == [mv EXCEPT !.amount = 100]
            IN  /\ \A r \in ResourceSet :
                      /\ Power(c, s, r)
                            = apply_move(Clamped(mv),
                                         retreat_bonus(Clamped(mv), bonus), r)
                      /\ Power(c, s, r) >= 0
                      /\ Power(c, s, r)
                            <= apply_move(full, retreat_bonus(full, bonus), r)
                /\ run[c].game.economy_bonus[s] >= bonus

\* C29: in Resource Wars a bluff commits to its target pool one quarter of
\* (amount + economy bonus), rounded down, and nothing to the other pools.
C29_BluffPower ==
    \A c \in Resolved("resource_wars") :
        \A s \in Sides :
            LET mv == Val(run[c].move[s])
                bonus == Val(run[c].before).economy_bonus[s]
            IN  mv.type = "bluff" =>
                    \A r \in ResourceSet :
                        Power(c, s, r)
                            = IF r = mv.target THEN (mv.amount + bonus) \div 4
                              ELSE 0

\* C30: in an auction the bid a side competes with lies between 0 and the
\* side's credits before the round, whatever amount was declared, and no
\* side's credits are negative or higher after a round than before it.
C30_BidWithinCredits ==
    \A c \in Resolved("auction") :
        \A s \in Sides :
            LET b == Val(run[c].before)
            IN  /\ ~IsNone(current_item(b)) =>
                      /\ Competing(Val(run[c].move[s]), b.credits[s]) >= 0
                      /\ Competing(Val(run[c].move[s]), b.credits[s])
                            <= b.credits[s]
                /\ run[c].game.credits[s] >= 0
                /\ run[c].game.credits[s] <= b.credits[s]

\* C31: in an auction the side with the strictly higher clamped bid takes
\* the item; when the clamped bids are equal and not zero exactly one side
\* takes it, the one the tie-break draws, and the draw may name either side;
\* when both are zero the item is unsold and credits, scores and won-items
\* ledgers are unchanged.
C31_HigherBidWins ==
    \A c \in Resolved("auction") :
        LET b == Val(run[c].before)
            g == run[c].game
            w == Val(run[c].resolution).round_winner
            red_bid == Competing(RedMove(c), b.credits["red"])
            blue_bid == Competing(BlueMove(c), b.credits["blue"])
        IN  ~IsNone(current_item(b)) =>
                /\ red_bid > blue_bid => w = "red"
                /\ blue_bid > red_bid => w = "blue"
                /\ (red_bid = blue_bid /\ red_bid # 0) =>
                      /\ w \in Sides
                      /\ w = run[c].draw
                      /\ Len(g.won_items[w]) = Len(b.won_items[w]) + 1
                      /\ g.won_items[Other(w)] = b.won_items[Other(w)]
                /\ (red_bid = 0 /\ blue_bid = 0) =>
                      /\ w = None
                      /\ g.credits = b.credits
                      /\ g.scores = b.scores
                      /\ g.won_items = b.won_items

\* the same tied bids of 200 gave the item to red in one copy of the match
\* and to blue in the other
C31_Witness ==
    /\ Resolved("auction") = Conns
    /\ RedMove(1) = AuctionMove("bid", 200)
    /\ BlueMove(1) = AuctionMove("bluff_bid", 200)
    /\ Val(run[1].before).round_number = 1
    /\ Val(run[1].resolution).round_winner = "red"
    /\ Val(run[2].resolution).round_winner = "blue"

\* the auctions played as bare engine runs
Auctions == {c \in Conns : run[c].pc = "engine" /\ run[c].gt = "auction"}

\* the round copy c has just resolved was round k on item k, with an item
\* on the block
ItemPerRound(c) ==
    ~IsNone(run[c].before) =>
        LET b == Val(run[c].before)
        IN  /\ ~IsNone(current_item(b))
            /\ b.round_number \in 1..TOTAL_ITEMS
            /\ Val(run[c].resolution).item_name = b.items[b.round_number].name
            /\ run[c].game.round_number = b.round_number + 1

BothBroke(c) == \A s \in Sides : run[c].game.credits[s] <= 0

GpuResolved ==
    {c \in Conns : run[c].pc = "gpu" /\ ~IsNone(run[c].before)}

\* C33: in the GPU marketplace the buyer's budget is never negative and a
\* transaction never charges more than the budget the buyer had before the
\* round, whatever the seller and the bidder play.
C33_BudgetNeverNegative ==
    \A c \in Conns :
        run[c].pc = "gpu" =>
            /\ run[c].game.user_budget >= 0
            /\ c \in GpuResolved =>
                  (Val(run[c].resolution).transaction_occurred =>
                      Val(run[c].resolution).final_price
                          <= Val(run[c].before).user_budget)

\* C34: in the GPU marketplace the seller's move is applied to the price of
\* the unit on the block before the bid is compared; a transaction occurs
\* only if the bidder's amount is at least that price (at least 1.3 times
\* it, rounded down, for a surge bid); a transaction lowers the budget and
\* raises the seller's revenue by the same final price, and without one
\* budget, revenue and compute acquired are unchanged.
C34_Transaction ==
    \A c \in GpuResolved :
        LET b == Val(run[c].before)
            g == run[c].game
            res == Val(run[c].resolution)
            bid == Val(run[c].move["red"])
            sell == Val(run[c].move["blue"])
            k == b.current_gpu
            base == GPU_TYPES[k].base_price
            price == g.current_price[k]
        IN  /\ sell.type = "hold" => price = b.current_price[k]
            /\ sell.type = "surge_pricing" =>
                  /\ 100 * price <= base * (100 + Abs(sell.price_adjustment))
                  /\ base * (100 + Abs(sell.price_adjustment)) < 100 * (price + 1)
            /\ sell.type = "set_price" =>
                  /\ 100 * price <= base * (100 + sell.price_adjustment)
                  /\ base * (100 + sell.price_adjustment) < 100 * (price + 1)
            /\ sell.type = "discount" =>
                  LET factor == Max(50, 100 - Abs(sell.price_adjustment))
                  IN  /\ 100 * price <= base * factor
                      /\ base * factor < 100 * (price + 1)
            /\ res.transaction_occurred =>
                  /\ bid.type \in {"bid", "surge_bid"}
                  /\ bid.type = "bid" =>
                        bid.amount >= price /\ res.final_price = price
                  /\ bid.type = "surge_bid" =>
                        /\ 10 * res.final_price <= 13 * price
                        /\ 13 * price < 10 * (res.final_price + 1)
                        /\ bid.amount >= res.final_price
                  /\ g.user_budget = b.user_budget - res.final_price
                  /\ g.neocloud_revenue = b.neocloud_revenue + res.final_price
            /\ ~res.transaction_occurred =>
                  /\ g.user_budget = b.user_budget
                  /\ g.neocloud_revenue = b.neocloud_revenue
                  /\ g.user_compute_acquired = b.user_compute_acquired

\* after an earlier purchase the seller surged the H100 to 520 and a bid
\* of 400 fell short and moved nothing
C34_Witness ==
    \E c \in GpuResolved :
        /\ Val(run[c].before).current_gpu = 1
        /\ Val(run[c].move["blue"]) = NeocloudMove("surge_pricing", 30)
        /\ Val(run[c].move["red"]) = GPUBidMove("bid", 400, 1)
        /\ ~Val(run[c].resolution).transaction_occurred
        /\ run[c].game.current_price[1] = 520
        /\ run[c].game.user_budget < USER_STARTING_BUDGET
        /\ run[c].game.user_budget = Val(run[c].before).user_budget

\* C35: when a side's guesses are annotated against the opponent's actual
\* move, a guess is marked correct exactly when its move kind and key
\* parameter both equal the actual move's, partial exactly when its move
\* kind equals the actual move's kind but the key parameter differs, and
\* never both.
C35_Annotation ==
    \A c \in Conns :
        \A s \in Sides :
            (run[c].gt \in GameTypes /\ ~IsNone(run[c].move[Other(s)])) =>
                \A i \in 1..Len(run[c].annot[s]) :
                    LET a == run[c].annot[s][i]
                        actual == Val(run[c].move[Other(s)])
                        same_kind == a.guess.type = actual.type
                        same_key == a.guess.key = move_key(run[c].gt, actual)
                    IN  /\ a.wasCorrect <=> (same_kind /\ same_key)
                        /\ a.partialMatch <=> (same_kind /\ ~same_key)
                        /\ ~(a.wasCorrect /\ a.partialMatch)

\* the step in which the round of connection c is resolved and the guesses
\* of both sides are annotated
ResolveStep(c) == run[c].pc = "te_blue" /\ run'[c].pc = "collapse"

\* each side's counters grow by the guesses just marked correct and by the
\* guesses just examined when a round is resolved, and only then
CountersFollowMarks ==
    /\ [][\A c \in Conns : \A s \in Sides :
            IF ResolveStep(c)
            THEN /\ run'[c].correct[s] = run[c].correct[s]
                        + Cardinality({i \in 1..Len(run'[c].annot[s]) :
                                          run'[c].annot[s][i].wasCorrect})
                 /\ run'[c].total_predictions[s] = run[c].total_predictions[s]
                        + Len(run[c].res[s].predictions)
                 /\ Len(run'[c].annot[s]) = Len(run[c].res[s].predictions)
            ELSE (run[c].pc \in TaskPcs /\ run'[c].pc \in TaskPcs) =>
                 /\ run'[c].correct[s] = run[c].correct[s]
                 /\ run'[c].total_predictions[s]
                        = run[c].total_predictions[s]]_vars
    /\ [](\A c \in Conns : \A s \in Sides :
            /\ run[c].pc = "match_start" =>
                  run[c].correct[s] = 0 /\ run[c].total_predictions[s] = 0
            /\ run[c].correct[s] <= run[c].total_predictions[s])

\* the roll-up match_end carries is the number of prediction events sent
RollUpCountsEvents ==
    [](\A c \in Conns :
          run[c].pc = "match_end" =>
              run[c].total_futures_simulated = Emitted(c, "prediction"))

BothRaised(c) ==
    /\ run[c].gt = "negotiation"
    /\ run[c].pc \in AfterResolve
    /\ \A s \in Sides : run[c].res[s].status = "raised"

\* C37: in a negotiation, if both sides' decide operations fail in the same
\* round before any deal, both moves are the default propose(50), the prices
\* cross, and the match ends in that round with a deal at 50 in which both
\* sides gain a positive score.
C37_DoubleFallback ==
    \A c \in Conns :
        /\ BothRaised(c) =>
              /\ \A s \in Sides :
                    Val(run[c].move[s]) = [type |-> "propose", price |-> 50]
              /\ run[c].game.deal_price = Some(50)
              /\ run[c].game.deal_round = Some(run[c].round_num)
              /\ \A s \in Sides : run[c].game.scores[s] > 0
              /\ Match_is_game_over(run[c].gt, run[c].game)
        /\ (run[c].gt = "negotiation"
            /\ run[c].pc \in {"match_end", "finishing", "completed"}
            /\ ~IsNone(run[c].game.deal_price)) =>
              run[c].game.deal_round = Some(run[c].rounds_resolved)

\* both decide operations raised in round 2, over a standing offer of 70,
\* and the deal at 50 gave each side 5 with walkaway prices 45 and 55
C37_Witness ==
    \E c \in Conns :
        /\ BothRaised(c)
        /\ run[c].round_num = 2
        /\ run[c].game.current_offer = Some(70)
        /\ run[c].game.red_walkaway = 45
        /\ run[c].game.blue_walkaway = 55
        /\ run[c].game.deal_price = Some(50)
        /\ run[c].game.scores = [red |-> 5, blue |-> 5]

\* the positions of a round from its round_start to the end of the gather
Thinking == {"round_start", "ts_red", "ts_blue", "gather"}

\* the two connections are in round r of runs that agree on the match and on
\* the moves of the rounds before r
SameBefore ==
    /\ \A c \in Conns : run[c].pc = "gather"
    /\ run[1].gt = run[2].gt
    /\ run[1].total_rounds = run[2].total_rounds
    /\ run[1].round_num = run[2].round_num
    /\ run[1].history = run[2].history

\* C38: what a side's decide receives in round r is the game state as of the
\* round_start of r and the moves of the rounds before r.  From round_start
\* to the end of the gather the inputs of either side do not change, whatever
\* the other side has decided meanwhile; during the gather the state is at
\* round r with no move resolved and each history holds r - 1 moves; and two
\* runs that agree on the match and on the rounds before r hand that side the
\* same inputs in round r even when the opponent's round-r moves differ.
C38_DecideInputs ==
    /\ [][\A c \in Conns : \A s \in Sides :
            (run[c].pc \in Thinking /\ run'[c].pc \in Thinking) =>
                decide_inputs(run'[c], s) = decide_inputs(run[c], s)]_vars
    /\ [](\A c \in Conns : \A s \in Sides :
            run[c].pc = "gather" =>
                /\ decide_inputs(run[c], s).game_state.round_number = run[c].round_num
                /\ Len(decide_inputs(run[c], s).opponent_history) = run[c].round_num - 1
                /\ Len(decide_inputs(run[c], s).my_history) = run[c].round_num - 1
                /\ run[c].resolves = 0)
    /\ [](SameBefore =>
            \A s \in Sides : decide_inputs(run[1], s) = decide_inputs(run[2], s))

\* both runs are in round 2 after the same first round, blue has decided
\* differently in the two runs and red has yet to decide
C38_Witness ==
    /\ SameBefore
    /\ run[1].round_num = 2
    /\ \A c \in Conns : run[c].res["red"].status = "pending"
    /\ \A c \in Conns : run[c].res["blue"].status = "returned"
    /\ run[1].res["blue"].chosen_move # run[2].res["blue"].chosen_move
    /\ decide_inputs(run[1], "red").opponent_history
           = <<Move("retreat", "A", 0)>>

\* the match of connection c was started and the registry holds no record
\* for its id any more
Gone(c) == run[c].gt # "none" /\ ~InRegistry(matches, run[c].mid)

\* C39: when the record of a running match has been evicted by the storing
\* of other matches, the run keeps streaming up to match_end (it ends with
\* match_end sent exactly once unless the client disconnects), no step of
\* the run puts a record for its id back, and no step of the run changes the
\* state or the event log of a record of another id.
C39_EvictedRun ==
    /\ [][\A c \in Conns :
            (run[c].gt # "none" /\ run'[c] # run[c]) =>
                /\ RegistryIds(matches') = RegistryIds(matches)
                /\ \A id \in RegistryIds(matches) \ {run[c].mid} :
                       Entry(matches', id) = Entry(matches, id)
                /\ Gone(c) => matches' = matches]_vars
    /\ [](\A c \in Conns :
            (Gone(c) /\ run[c].pc = "completed") => EndedOnce(c))
    /\ \A c \in Conns :
           (Gone(c) /\ run[c].pc \in TaskPcs) ~>
               \/ Gone(c) /\ run[c].pc = "completed" /\ EndedOnce(c)
               \/ run[c].pc \in {"cancelled", "disconnected"}

\* a match that lost its record while it was running, streamed its round
\* and match_end, and finished with the registry full of other matches
C39_Witness ==
    \E c \in Conns :
        /\ Gone(c)
        /\ run[c].pc = "completed"
        /\ run[c].rounds_resolved = 1
        /\ run[c].emitted[Len(run[c].emitted)].type = "match_end"
        /\ Len(matches) = MAX_MATCHES
        /\ \A i \in 1..Len(matches) :
               matches[i].state = "created" /\ matches[i].events = <<>>

====
